---- MODULE Spec2Model ----
(***************************************************************************)
(* Regulation ingestion of HumBobBot: RegulationCrawler.crawl() walking    *)
(* the configured boards and upserting Regulation rows, and                *)
(* RegulationCrawler.handle_file_process() converting the attachments of   *)
(* the rows whose html_url is None.                                        *)
(*                                                                         *)
(* One crawler instance over one store session (src/RegulationCrawler.py   *)
(* lines 47-55); crawl() and handle_file_process() are called one after    *)
(* the other, never concurrently.  The portal's answers (network errors,   *)
(* page structure), the converters' results and the store's answer to the  *)
(* html_url commit are inputs drawn with \E.                               *)
(***************************************************************************)
EXTENDS Integers, Sequences, FiniteSets, TLC

(* ------------------------------ bounds -------------------------------- *)
\* posts published on all boards together
MaxPosts == 2
\* calls of crawl() and handle_file_process() in one behaviour
MaxCalls == 3
\* fetches that fail on the network in one behaviour
MaxNetFail == 1
\* consecutive days on which a diet title may be processed
DayWindow == 8
\* upload requests in one behaviour
MaxUploads == 2

(* ------------------------ Python's None, by type ---------------------- *)
\* file_url None
NoUrl == "None"
\* enforce_date None
NoDate == 0
\* the text of div#boardContents after its colon when it is not a
\* YYYY-MM-DD date (strptime raises ValueError)
UnparseableDate == -1
\* html_url None, and a str | None path that is None
NoPath == <<>>
\* next_link None
NoLink == 0

(* ------------------------- the source portal -------------------------- *)
\* RegulationCrawler.target_boards: three listing endpoints
target_boards == <<"conf_no=105", "conf_no=107", "conf_no=106">>
Boards == 1..Len(target_boards)

\* attachment links as the portal writes them
UrlHwp == "/download.do?file_no=1&file_name_origin=reg.HWP"
UrlPdf == "/download.do?file_no=2&file_name_origin=reg.v2.pdf"
UrlNoName == "/download.do?file_no=3"
UrlDocx == "/download.do?file_no=4&file_name_origin=reg.docx"

\* what one post page holds: whether div.board-view-title exists, how many
\* non-blank text segments it has, whether segment 3 is a YYYY-MM-DD date,
\* and the values handle_post reads off a well-formed page (enforce_date is
\* the date written in div#boardContents, NoDate when the page has no such
\* element or no colon in it, UnparseableDate when the text is no date)
Page(ty, t, d, url, e) ==
    [title_elem |-> TRUE, nsegs |-> 4, date_ok |-> TRUE,
     type |-> ty, title |-> t, create_date |-> d,
     file_url |-> url, enforce_date |-> e]
\* the posts of the portal: three regulations (two share the title "a b", the
\* third is titled "c"; the types are two categories of Regulation.type,
\* gyujeong and naegyu), each in an older and a newer version (create dates 1
\* and 2) with different attachments and enforcement dates, and one post of
\* the category jichim, which handle_post names among the categories it
\* expects and which Regulation.type does not list
GoodPages ==
    { Page("gyujeong", <<"a", " ", "b">>, 1, UrlHwp, 1),
      Page("gyujeong", <<"a", " ", "b">>, 2, UrlPdf, NoDate),
      Page("naegyu", <<"a", " ", "b">>, 1, NoUrl, NoDate),
      Page("naegyu", <<"a", " ", "b">>, 2, UrlDocx, 2),
      Page("gyujeong", <<"c">>, 1, UrlNoName, 1),
      Page("gyujeong", <<"c">>, 2, UrlHwp, 1),
      Page("jichim", <<"d">>, 1, NoUrl, UnparseableDate) }
BadPage(te, n, dok) ==
    [title_elem |-> te, nsegs |-> n, date_ok |-> dok,
     type |-> "gyujeong", title |-> <<"c">>, create_date |-> 1,
     file_url |-> NoUrl, enforce_date |-> NoDate]
\* no title element; three text segments; a fourth segment that is no date
BadPages == {BadPage(FALSE, 0, FALSE), BadPage(TRUE, 3, FALSE), BadPage(TRUE, 4, FALSE)}
Pages == GoodPages \cup BadPages

RECURSIVE SeqsUpTo(_, _)
SeqsUpTo(S, n) ==
    IF n = 0 THEN {<<>>}
    ELSE LET shorter == SeqsUpTo(S, n - 1)
         IN shorter \cup {Append(s, x) : s \in {q \in shorter : Len(q) = n - 1}, x \in S}

\* every assignment of previous-post chains to the three boards: a sequence
\* of at most MaxPosts posts cut in three
Cuts(q) == {c \in (0..Len(q)) \X (0..Len(q)) : c[1] <= c[2]}
Portals ==
    UNION { { <<SubSeq(q, 1, c[1]), SubSeq(q, c[1] + 1, c[2]), SubSeq(q, c[2] + 1, Len(q))>> :
                c \in Cuts(q) } : q \in SeqsUpTo(Pages, MaxPosts) }

VARIABLES
    chain,              \* board -> its posts, head (newest listed) first
    store,              \* the regulations table: sequence of rows, id = position
    pc,                 \* "ready" | "board" | "post" | "batch"
    board,              \* crawl(): index into target_boards
    link,               \* crawl(): next_link, a position in chain[board] or None
    hwp5html_available, \* set by _check_hwp5html_availability
    docker_available,   \* set by _check_docker_availability
    error_list,         \* self.error_list
    todo,               \* handle_file_process(): regulations_to_process still ahead
    staged,             \* files in config.DOWNLOAD_DIR
    calls,              \* crawl()/handle_file_process() calls so far
    last,               \* the method that ran last: "none" | "crawl" | "batch"
    event,              \* what the last step did: [op, id, post]
    prev,               \* the store before the last step
    store0,             \* the store when the running/last crawl() began
    boardStore,         \* the store when the walk of the current/last board began
    clean,              \* a crawl() has begun and no fetch of the latest one failed on the network
    prevClean,          \* the same for the crawl() before the latest
    done,               \* handle_file_process(): the items of this batch so far
    netfails,           \* fetches that failed on the network so far
    post_title,         \* diet upload: the title of the post
    today,              \* diet upload: the day of datetime.datetime.now()
    post_create_date,   \* diet upload: the parsed creation date of the post
    datetime_list,      \* _extract_date_from_title: the dates found, in title order
    start_date,         \* ProcessedDietData.start_date
    diet_start_date,    \* Diet.start_date: [raised, value]
    served,             \* which of the two sides has computed its start date
    diets,              \* the rows of the diets table, in the order of their ids
    images,             \* the image files under assets/image/diet
    uploads,            \* upload requests so far
    request,            \* the request handled last: [op, text, post_create_date, content_type]
    reply,              \* its response: [status, kind, queried, items]
    before,             \* diets and images when that request arrived
    utterance,          \* location resolution: the text
    determined_location,\* determine_location_from_utterance(utterance)
    cafeteria_info,     \* _determine_cafeteria_info(utterance)
    resolved,           \* which of the two has been computed
    user_responses_cache, \* ai_crud.user_responses_cache: user id -> entry
    clock,              \* the time, in seconds
    workers,            \* response_openai threads still generating after ai_chat returned
    api_calls,          \* calls of the OpenAI API so far
    kakaorequest,       \* the request ai_chat handled last, the time and the API calls then
    response,           \* what ai_chat returned for it
    cache_before,       \* user_responses_cache when that request arrived
    recent,             \* the last two steps of the AI skill, oldest first
    rules,              \* server.rules: the list loaded from rules.json
    user_msg_raw,       \* get_rules: the utterance of the last request
    results,            \* get_rules: the matched rules, before the cut to ten
    cards,              \* get_rules: the response, [status, kind, items]
    pending,            \* two rows awaiting conversion whose artifacts are named
    artifacts,          \* their download file names and HTML output directories
    table,              \* the regulations table two overlapping crawl() runs share
    feed,               \* the previous-post chain both runs walk, head first
    runs                \* run -> [pc, at, found, decision]: where each crawl() is

regulationVars ==
    <<chain, store, pc, board, link, hwp5html_available, docker_available,
      error_list, todo, staged, calls, last, event, prev, store0, boardStore,
      clean, prevClean, done, netfails>>
dietVars ==
    <<post_title, today, post_create_date, datetime_list, start_date,
      diet_start_date, served>>
uploadVars == <<diets, images, uploads, request, reply, before>>
locationVars == <<utterance, determined_location, cafeteria_info, resolved>>
aiVars ==
    <<user_responses_cache, clock, workers, api_calls, kakaorequest, response,
      cache_before, recent>>
rulesVars == <<rules, user_msg_raw, results, cards>>
chatVars == <<aiVars, rulesVars>>
artifactVars == <<pending, artifacts>>
raceVars == <<table, feed, runs>>
sideVars == <<artifactVars, raceVars>>
serviceVars == <<uploadVars, locationVars, chatVars, sideVars>>
vars == <<regulationVars, dietVars, serviceVars>>

\* the upload service before its first request
UploadIdle ==
    /\ diets = <<>>
    /\ images = {}
    /\ uploads = 0
    /\ request = [op |-> "none", text |-> <<>>, post_create_date |-> <<>>,
                  content_type |-> ""]
    /\ reply = [status |-> 0, kind |-> "none", queried |-> FALSE, items |-> <<>>]
    /\ before = [diets |-> <<>>, images |-> {}]
\* no text to resolve
LocationIdle ==
    /\ utterance = <<>>
    /\ determined_location = <<>>
    /\ cafeteria_info = [cafeteria_id |-> 0, cafeteria_name_for_file |-> <<>>]
    /\ resolved = {}
\* the user ids of the chatbot and the absent cache entry
Users == {"u1", "u2"}
\* a text: who wrote it (the bot, GPT, DALL-E), about what, and which API call
NoText == [by |-> "", about |-> <<>>, serial |-> 0]
NoEntry == [type |-> "none", data |-> NoText, prompt |-> <<>>, timestamp |-> 0]
\* the AI skill before its first request
AiIdle ==
    /\ user_responses_cache = [u \in Users |-> NoEntry]
    /\ clock = 0
    /\ workers = {}
    /\ api_calls = 0
    /\ kakaorequest = [user |-> "", utterance |-> <<>>, at |-> 0, api_calls |-> 0]
    /\ response = [format |-> "none", text |-> NoText, prompt |-> <<>>]
    /\ cache_before = [u \in Users |-> NoEntry]
    /\ recent = <<>>
\* no rules loaded and no request for rules
RulesIdle ==
    /\ rules = <<>>
    /\ user_msg_raw = <<>>
    /\ results = <<>>
    /\ cards = [status |-> 0, kind |-> "none", items |-> <<>>]
ChatIdle == AiIdle /\ RulesIdle
\* no artifact to name
ArtifactIdle ==
    /\ pending = <<>>
    /\ artifacts = <<>>
\* no overlapping crawl() runs
RaceIdle ==
    /\ table = <<>>
    /\ feed = <<>>
    /\ runs = <<>>
SideIdle == ArtifactIdle /\ RaceIdle
ServiceIdle == UploadIdle /\ LocationIdle /\ ChatIdle /\ SideIdle

crawlVars == <<board, link, store0, boardStore, clean, prevClean>>
batchVars == <<error_list, todo, staged, done>>
flagVars == <<hwp5html_available, docker_available>>

\* the placeholder of event.post when no post was parsed in the step
NoPost ==
    [type |-> "", title |-> <<>>, create_date |-> 0, file_url |-> NoUrl,
     enforce_date |-> NoDate, next_link |-> NoLink]
Event(op, id, post) == [op |-> op, id |-> id, post |-> post]

Init ==
    /\ chain \in Portals
    /\ store = <<>>
    /\ pc = "ready"
    /\ board = 1
    /\ link = NoLink
    /\ hwp5html_available \in BOOLEAN
    /\ docker_available \in BOOLEAN
    /\ error_list = <<>>
    /\ todo = <<>>
    /\ staged = {}
    /\ calls = 0
    /\ last = "none"
    /\ event = Event("init", 0, NoPost)
    /\ prev = <<>>
    /\ store0 = <<>>
    /\ boardStore = <<>>
    /\ clean = FALSE
    /\ prevClean = FALSE
    /\ done = <<>>
    /\ netfails = 0
    /\ post_title = <<>>
    /\ today = NoDate
    /\ post_create_date = NoDate
    /\ datetime_list = <<>>
    /\ start_date = NoDate
    /\ diet_start_date = [raised |-> FALSE, value |-> NoDate]
    /\ served = {}
    /\ ServiceIdle

(* ------------------------------ the store ----------------------------- *)
\* datetime.datetime.now(): later than every create date, advancing with the calls
Now == 2 + calls

\* self.db.query(Regulation).filter_by(title=..., type=...).first(): the id of
\* the matching row, 0 when there is none
FindRegulation(s, title, type) ==
    LET m == {i \in DOMAIN s : s[i].title = title /\ s[i].type = type}
    IN IF m = {} THEN 0 ELSE CHOOSE i \in m : \A j \in m : i <= j

\* Regulation.title is declared unique=True: the commit of a new row raises
\* IntegrityError when a row with that title exists, whatever its type
TitleIsFree(s, title) == \A i \in DOMAIN s : s[i].title # title

\* Regulation(...) as crawl() builds it for a post not found in the store
NewRegulation(s, post) ==
    [id |-> Len(s) + 1, title |-> post.title, type |-> post.type,
     create_date |-> post.create_date, update_date |-> post.create_date,
     enforce_date |-> post.enforce_date, file_url |-> post.file_url,
     html_url |-> NoPath]

\* IsOutdated with <= for <: a post of the same date counts as newer
IsOutdatedOrEqual(regulation, post) ==
    post.create_date # 0 /\ regulation.create_date <= post.create_date

\* IsOutdated with the comparison reversed
IsOutdatedReversed(regulation, post) ==
    post.create_date # 0 /\ regulation.create_date > post.create_date

\* the elif of crawl(): the stored row is older than the post
IsOutdated(regulation, post) ==
    post.create_date # 0 /\ regulation.create_date < post.create_date

\* UpdatedRegulation without the assignment of create_date
UpdatedRegulationKeepsDate(regulation, post, now) ==
    [regulation EXCEPT !.update_date = now,
                       !.enforce_date = post.enforce_date,
                       !.file_url = post.file_url,
                       !.html_url = NoPath]

\* UpdatedRegulation without the reset of html_url
UpdatedRegulationKeepsHtml(regulation, post, now) ==
    [regulation EXCEPT !.create_date = post.create_date,
                       !.update_date = now,
                       !.enforce_date = post.enforce_date,
                       !.file_url = post.file_url]

\* UpdatedRegulation that also rewrites the title, blanks turned into "_"
UpdatedRegulationRetitled(regulation, post, now) ==
    [regulation EXCEPT !.title = [i \in DOMAIN post.title |->
                                     IF post.title[i] = " " THEN "_" ELSE post.title[i]],
                       !.create_date = post.create_date,
                       !.update_date = now,
                       !.enforce_date = post.enforce_date,
                       !.file_url = post.file_url,
                       !.html_url = NoPath]

\* the assignments of the "exists but is outdated" branch
UpdatedRegulation(regulation, post, now) ==
    [regulation EXCEPT !.create_date = post.create_date,
                       !.update_date = now,
                       !.enforce_date = post.enforce_date,
                       !.file_url = post.file_url,
                       !.html_url = NoPath]

\* Upsert that adds a row for every post it sees, on a table that takes it
UpsertAlwaysAdd(s, post, now) ==
    [op |-> "insert", id |-> Len(s) + 1, raised |-> FALSE,
     store |-> Append(s, NewRegulation(s, post))]

\* the upsert of one post: look up by (title, type), then add / update / skip.
\* raised: the commit of the new row failed, the session rolled it back
Upsert(s, post, now) ==
    LET i == FindRegulation(s, post.title, post.type)
    IN IF i = 0
       THEN IF TitleIsFree(s, post.title)
            THEN [op |-> "insert", id |-> Len(s) + 1, raised |-> FALSE,
                  store |-> Append(s, NewRegulation(s, post))]
            ELSE [op |-> "integrity_error", id |-> 0, raised |-> TRUE, store |-> s]
       ELSE IF IsOutdated(s[i], post)
            THEN [op |-> "update", id |-> i, raised |-> FALSE,
                  store |-> [s EXCEPT ![i] = UpdatedRegulation(s[i], post, now)]]
            ELSE [op |-> "skip", id |-> i, raised |-> FALSE, store |-> s]

(* ------------------------------- crawl() ------------------------------ *)
\* the enforcement date of a page: its parsed date, None when the element or
\* the colon is missing, and None when strptime raises (except Exception)
post_enforce_date(page) ==
    IF page.enforce_date = UnparseableDate THEN NoDate ELSE page.enforce_date

\* handle_post that treats the attachment and the enforcement date as it
\* treats the creation date: a missing or unparseable one raises
handle_post_strict(page, net_ok, next_link) ==
    LET post == [type |-> page.type, title |-> page.title,
                 create_date |-> page.create_date, file_url |-> page.file_url,
                 enforce_date |-> post_enforce_date(page), next_link |-> next_link]
    IN IF ~net_ok THEN [raised |-> "RequestException", post |-> post]
       ELSE IF ~page.title_elem THEN [raised |-> "ValueError: missing title element", post |-> post]
       ELSE IF page.nsegs < 4 THEN [raised |-> "ValueError: unexpected post text format", post |-> post]
       ELSE IF ~page.date_ok THEN [raised |-> "ValueError: invalid create date", post |-> post]
       ELSE IF page.file_url = NoUrl \/ page.enforce_date \in {NoDate, UnparseableDate}
              THEN [raised |-> "ValueError: missing field", post |-> post]
       ELSE [raised |-> "", post |-> post]

\* handle_post: fetch the page and parse it into a RegulationPost, or raise
handle_post(page, net_ok, next_link) ==
    LET post == [type |-> page.type, title |-> page.title,
                 create_date |-> page.create_date, file_url |-> page.file_url,
                 enforce_date |-> post_enforce_date(page), next_link |-> next_link]
    IN IF ~net_ok THEN [raised |-> "RequestException", post |-> post]
       ELSE IF ~page.title_elem THEN [raised |-> "ValueError: missing title element", post |-> post]
       ELSE IF page.nsegs < 4 THEN [raised |-> "ValueError: unexpected post text format", post |-> post]
       ELSE IF ~page.date_ok THEN [raised |-> "ValueError: invalid create date", post |-> post]
       ELSE [raised |-> "", post |-> post]

\* PrevPostLink that ends the walk at a post whose row is stored and not older
PrevPostLinkUntilSynced(b, l) ==
    IF l < Len(chain[b])
       /\ ~\E i \in DOMAIN store :
              /\ store[i].title = chain[b][l].title
              /\ store[i].type = chain[b][l].type
              /\ store[i].create_date >= chain[b][l].create_date
    THEN l + 1 ELSE NoLink

\* li.li-prev a: the link to the chronologically previous post
PrevPostLink(b, l) == IF l < Len(chain[b]) THEN l + 1 ELSE NoLink

\* what a GET of the portal can answer: TRUE, or a RequestException
NetOutcomes == IF netfails < MaxNetFail THEN BOOLEAN ELSE {TRUE}

\* ToNextBoard with a return for the break/continue: crawl() ends at this board
StopCrawl ==
    /\ link' = NoLink
    /\ board' = board
    /\ pc' = "ready"

\* the for loop of crawl() moves to the next board, or crawl() returns
ToNextBoard ==
    /\ link' = NoLink
    /\ board' = board + 1
    /\ pc' = IF board < Len(target_boards) THEN "board" ELSE "ready"

\* crawl() is called
CrawlBegin ==
    /\ pc = "ready"
    /\ calls < MaxCalls
    /\ calls' = calls + 1
    /\ pc' = "board"
    /\ board' = 1
    /\ link' = NoLink
    /\ last' = "crawl"
    /\ store0' = store
    /\ prevClean' = clean
    /\ clean' = TRUE
    /\ event' = Event("crawl", 0, NoPost)
    /\ prev' = store
    /\ UNCHANGED <<chain, store, boardStore, flagVars, dietVars, serviceVars, batchVars, netfails>>

\* CrawlBoard with a return for the continue of the listing's except clause:
\* a listing that cannot be fetched ends crawl()
CrawlBoardReturnsOnFailure ==
    /\ pc = "board"
    /\ \E net_ok \in NetOutcomes :
        /\ netfails' = IF net_ok THEN netfails ELSE netfails + 1
        /\ IF ~net_ok
             THEN /\ StopCrawl
                  /\ clean' = FALSE
                  /\ event' = Event("listing_failed", board, NoPost)
                  /\ UNCHANGED boardStore
             ELSE IF chain[board] = <<>>
                    THEN /\ ToNextBoard
                         /\ clean' = clean
                         /\ event' = Event("listing_empty", board, NoPost)
                         /\ UNCHANGED boardStore
                    ELSE /\ pc' = "post"
                         /\ link' = 1
                         /\ board' = board
                         /\ clean' = clean
                         /\ event' = Event("listing_ok", board, NoPost)
                         /\ boardStore' = store
    /\ prev' = store
    /\ UNCHANGED <<chain, store, flagVars, dietVars, serviceVars, batchVars, calls, last, store0, prevClean>>

\* one pass of the for loop up to the while: fetch the listing, find the head post.
\* A listing without rows and a first row without a link both skip the board.
CrawlBoard ==
    /\ pc = "board"
    /\ \E net_ok \in NetOutcomes :
        /\ netfails' = IF net_ok THEN netfails ELSE netfails + 1
        /\ IF ~net_ok
             THEN /\ ToNextBoard
                  /\ clean' = FALSE
                  /\ event' = Event("listing_failed", board, NoPost)
                  /\ UNCHANGED boardStore
             ELSE IF chain[board] = <<>>
                    THEN /\ ToNextBoard
                         /\ clean' = clean
                         /\ event' = Event("listing_empty", board, NoPost)
                         /\ UNCHANGED boardStore
                    ELSE /\ pc' = "post"
                         /\ link' = 1
                         /\ board' = board
                         /\ clean' = clean
                         /\ event' = Event("listing_ok", board, NoPost)
                         /\ boardStore' = store
    /\ prev' = store
    /\ UNCHANGED <<chain, store, flagVars, dietVars, serviceVars, batchVars, calls, last, store0, prevClean>>

\* one pass of the while loop: handle_post, then the upsert and its commit
CrawlPost ==
    /\ pc = "post"
    /\ \E net_ok \in NetOutcomes :
        LET r == handle_post(chain[board][link], net_ok, PrevPostLink(board, link))
            u == Upsert(store, r.post, Now)
        IN /\ netfails' = IF net_ok THEN netfails ELSE netfails + 1
           /\ IF r.raised # ""
                THEN \* except Exception: break
                     /\ ToNextBoard
                     /\ store' = store
                     /\ clean' = (clean /\ net_ok)
                     /\ event' = Event("post_failed", board, NoPost)
                ELSE IF u.raised
                       THEN \* the outer except Exception: crawl() ends here
                            /\ pc' = "ready"
                            /\ UNCHANGED <<board, link>>
                            /\ store' = u.store
                            /\ clean' = clean
                            /\ event' = Event(u.op, board, r.post)
                       ELSE /\ store' = u.store
                            /\ clean' = clean
                            /\ event' = Event(u.op, board, r.post)
                            /\ IF r.post.next_link # NoLink
                                 THEN /\ link' = r.post.next_link
                                      /\ UNCHANGED <<pc, board>>
                                 ELSE ToNextBoard
    /\ prev' = store
    /\ UNCHANGED <<chain, boardStore, flagVars, dietVars, serviceVars, batchVars, calls, last, store0, prevClean>>

(* ------------------------ handle_file_process() ----------------------- *)
\* config.KEEP_DOWNLOADED_ORIGINALS
KEEP_DOWNLOADED_ORIGINALS == FALSE

\* parse_qs(urlparse(file_url).query).get("file_name_origin"), split on "."
\* (<<>>: the parameter is absent or empty)
FileNameOrigin(file_url) ==
    CASE file_url = UrlHwp -> <<"reg", "HWP">>
      [] file_url = UrlPdf -> <<"reg", "v2", "pdf">>
      [] file_url = UrlDocx -> <<"reg", "docx">>
      [] OTHER -> <<>>

\* str.lower() on the extensions that occur
Lower(x) == CASE x = "HWP" -> "hwp" [] x = "PDF" -> "pdf" [] OTHER -> x

_get_file_extension_from_url(file_url) ==
    LET name == FileNameOrigin(file_url)
    IN IF name = <<>> THEN "bin"
       ELSE IF Len(name) > 1 THEN Lower(name[Len(name)]) ELSE "bin"

\* title.replace(" ", "_").replace("/", "_").replace("\\", "_")
Sanitize(title) ==
    [i \in DOMAIN title |-> IF title[i] \in {" ", "/", "\\"} THEN "_" ELSE title[i]]

\* "[{type}]{sanitized_title}_{create_date}.{file_ext}", field by field
_generate_download_filename(regulation, file_ext) ==
    <<regulation.type, Sanitize(regulation.title), regulation.create_date, file_ext>>

\* str.replace(old, ""): every occurrence of old is taken out, left to right
RECURSIVE Remove(_, _)
Remove(str, old) ==
    IF Len(str) < Len(old) THEN str
    ELSE IF SubSeq(str, 1, Len(old)) = old
         THEN Remove(SubSeq(str, Len(old) + 1, Len(str)), old)
         ELSE <<Head(str)>> \o Remove(Tail(str), old)

\* downloaded_filename.replace(".{file_ext}", ""), with file_ext the text after
\* the last dot (in lower case since _get_file_extension_from_url): the
\* extension at the end goes, and so does every ".{file_ext}" inside the title
\* (the type and the date hold no dot)
_generate_html_output_dirname(downloaded_filename) ==
    LET file_ext == Lower(downloaded_filename[Len(downloaded_filename)])
    IN <<downloaded_filename[1],
         Remove(downloaded_filename[2], <<".", file_ext>>),
         downloaded_filename[3]>>

\* one entry of self.error_list: "{title} (ID: {id}) - {reason}"
ErrorEntry(regulation, reason) ==
    [id |-> regulation.id, title |-> regulation.title, reason |-> reason]

\* HasEntry that never finds the entry
HasEntryNever(errors, regulation) == FALSE

\* any(f"{title} (ID: {id})" in err for err in self.error_list)
HasEntry(errors, regulation) ==
    \E k \in DOMAIN errors :
        errors[k].id = regulation.id /\ errors[k].title = regulation.title

\* the selection without its filter: every row
SelectAllRegulations(s) == [i \in DOMAIN s |-> i]

\* the query with .first() for .all(): the first pending row only
SelectFirstPending(s) ==
    LET ids == SelectSeq([i \in DOMAIN s |-> i], LAMBDA i : s[i].html_url = NoPath)
    IN IF ids = <<>> THEN <<>> ELSE <<ids[1]>>

\* self.db.query(Regulation).filter(Regulation.html_url == None).all(), as ids
_get_regulations_needing_html_conversion(s) ==
    SelectSeq([i \in DOMAIN s |-> i], LAMBDA i : s[i].html_url = NoPath)

DownloadOutcomes == {"ok", "HTTPError", "RequestException", "IOError"}
ConvertOutcomes == {"rc0", "rc1", "TimeoutExpired"}

\* _download_regulation_file: [path, errors, staged]
_download_regulation_file(regulation, errors, files, dl) ==
    LET name == _generate_download_filename(
                    regulation, _get_file_extension_from_url(regulation.file_url))
    IN IF regulation.file_url = NoUrl
       THEN [path |-> NoPath, errors |-> errors, staged |-> files]
       ELSE IF dl = "ok"
       THEN [path |-> name, errors |-> errors, staged |-> files \cup {name}]
       ELSE [path |-> NoPath, staged |-> files,
             errors |-> Append(errors, ErrorEntry(regulation,
                 CASE dl = "HTTPError" -> "HTTP download error"
                   [] dl = "RequestException" -> "Download request error"
                   [] OTHER -> "File save error"))]

\* _convert_file_to_html_format without its else branch: a file that is not a
\* pdf is handed to hwp5html
_convert_file_to_html_format_any_ext(regulation, downloaded_filename, errors, conv) ==
    LET file_ext == Lower(downloaded_filename[Len(downloaded_filename)])
        dirname == _generate_html_output_dirname(downloaded_filename)
        fail(reason, ran) ==
            [path |-> NoPath, ran |-> ran,
             errors |-> Append(errors, ErrorEntry(regulation, reason))]
    IN IF file_ext # "pdf"
       THEN IF ~hwp5html_available THEN fail("Skipped: hwp5html unavailable", FALSE)
            ELSE IF conv = "rc0"
            THEN [path |-> <<dirname, <<"index", "html">>>>, ran |-> TRUE, errors |-> errors]
            ELSE IF conv = "rc1" THEN fail("HWP conversion error", TRUE)
            ELSE fail("HWP conversion timeout", TRUE)
       ELSE IF ~docker_available THEN fail("Skipped: Docker unavailable", FALSE)
            ELSE IF conv = "rc0"
            THEN [path |-> <<dirname, Append(dirname, "html")>>, ran |-> TRUE, errors |-> errors]
            ELSE IF conv = "rc1" THEN fail("PDF conversion error", TRUE)
            ELSE fail("PDF conversion timeout", TRUE)

\* _convert_file_to_html_format without the two availability checks: the
\* converter is invoked whatever the probe found
_convert_file_to_html_format_unprobed(regulation, downloaded_filename, errors, conv) ==
    LET file_ext == Lower(downloaded_filename[Len(downloaded_filename)])
        dirname == _generate_html_output_dirname(downloaded_filename)
        fail(reason, ran) ==
            [path |-> NoPath, ran |-> ran,
             errors |-> Append(errors, ErrorEntry(regulation, reason))]
    IN IF file_ext = "hwp"
       THEN IF conv = "rc0"
            THEN [path |-> <<dirname, <<"index", "html">>>>, ran |-> TRUE, errors |-> errors]
            ELSE IF conv = "rc1" THEN fail("HWP conversion error", TRUE)
            ELSE fail("HWP conversion timeout", TRUE)
       ELSE IF file_ext = "pdf"
       THEN IF conv = "rc0"
            THEN [path |-> <<dirname, Append(dirname, "html")>>, ran |-> TRUE, errors |-> errors]
            ELSE IF conv = "rc1" THEN fail("PDF conversion error", TRUE)
            ELSE fail("PDF conversion timeout", TRUE)
       ELSE fail("Unsupported file type", FALSE)

\* _convert_file_to_html_format: [path, errors, ran]; ran: a converter was invoked
_convert_file_to_html_format(regulation, downloaded_filename, errors, conv) ==
    LET file_ext == Lower(downloaded_filename[Len(downloaded_filename)])
        dirname == _generate_html_output_dirname(downloaded_filename)
        fail(reason, ran) ==
            [path |-> NoPath, ran |-> ran,
             errors |-> Append(errors, ErrorEntry(regulation, reason))]
    IN IF file_ext = "hwp"
       THEN IF ~hwp5html_available THEN fail("Skipped: hwp5html unavailable", FALSE)
            ELSE IF conv = "rc0"
            THEN [path |-> <<dirname, <<"index", "html">>>>, ran |-> TRUE, errors |-> errors]
            ELSE IF conv = "rc1" THEN fail("HWP conversion error", TRUE)
            ELSE fail("HWP conversion timeout", TRUE)
       ELSE IF file_ext = "pdf"
       THEN IF ~docker_available THEN fail("Skipped: Docker unavailable", FALSE)
            ELSE IF conv = "rc0"
            THEN [path |-> <<dirname, Append(dirname, "html")>>, ran |-> TRUE, errors |-> errors]
            ELSE IF conv = "rc1" THEN fail("PDF conversion error", TRUE)
            ELSE fail("PDF conversion timeout", TRUE)
       ELSE fail("Unsupported file type", FALSE)

\* _update_db_html_url whose failed commit is not rolled back
_update_db_html_url_no_rollback(s, regulation, html_file_rel_path, errors, db_ok, now) ==
    [store |-> [s EXCEPT ![regulation.id].html_url = html_file_rel_path,
                         ![regulation.id].update_date = now],
     errors |-> IF db_ok THEN errors
                ELSE Append(errors, ErrorEntry(regulation, "DB update error for html_url"))]

\* _update_db_html_url: [store, errors]; the commit succeeds or is rolled back
_update_db_html_url(s, regulation, html_file_rel_path, errors, db_ok, now) ==
    IF db_ok
    THEN [store |-> [s EXCEPT ![regulation.id].html_url = html_file_rel_path,
                              ![regulation.id].update_date = now],
          errors |-> errors]
    ELSE [store |-> s,
          errors |-> Append(errors, ErrorEntry(regulation, "DB update error for html_url"))]

\* _remove_downloaded_original
_remove_downloaded_original(files, downloaded_filename) ==
    IF ~KEEP_DOWNLOADED_ORIGINALS THEN files \ {downloaded_filename} ELSE files

\* _process_single_regulation_file that removes the original after the store
\* update whether or not the update was committed
_process_single_regulation_file_always_removes(s, regulation, errors, files, dl, conv, db_ok, now) ==
    LET d == _download_regulation_file(regulation, errors, files, dl)
        c == _convert_file_to_html_format(regulation, d.path, d.errors, conv)
        u == _update_db_html_url(s, regulation, c.path, c.errors, db_ok, now)
        item(download, convert, db) ==
            [id |-> regulation.id, download |-> download, convert |-> convert, db |-> db]
    IN IF regulation.file_url = NoUrl
       THEN [store |-> s, staged |-> files, item |-> item("none", "none", "none"),
             errors |-> Append(errors, ErrorEntry(regulation, "No file_url for processing"))]
       ELSE IF d.path = NoPath \/ d.path \notin d.staged
       THEN [store |-> s, staged |-> d.staged, item |-> item(dl, "none", "none"),
             errors |-> IF HasEntry(d.errors, regulation) THEN d.errors
                        ELSE Append(d.errors,
                                 ErrorEntry(regulation, "Download failed/file missing"))]
       ELSE IF c.path = NoPath
       THEN [store |-> s, staged |-> d.staged, errors |-> c.errors,
             item |-> item(dl, IF c.ran THEN conv ELSE "not run", "none")]
       ELSE [store |-> u.store, errors |-> u.errors,
             item |-> item(dl, conv, IF db_ok THEN "ok" ELSE "failed"),
             staged |-> _remove_downloaded_original(d.staged, d.path)]

\* _process_single_regulation_file: [store, errors, staged, item];
\* item records what was attempted for the regulation and how it went
_process_single_regulation_file(s, regulation, errors, files, dl, conv, db_ok, now) ==
    LET d == _download_regulation_file(regulation, errors, files, dl)
        c == _convert_file_to_html_format(regulation, d.path, d.errors, conv)
        u == _update_db_html_url(s, regulation, c.path, c.errors, db_ok, now)
        item(download, convert, db) ==
            [id |-> regulation.id, download |-> download, convert |-> convert, db |-> db]
    IN IF regulation.file_url = NoUrl
       THEN [store |-> s, staged |-> files, item |-> item("none", "none", "none"),
             errors |-> Append(errors, ErrorEntry(regulation, "No file_url for processing"))]
       ELSE IF d.path = NoPath \/ d.path \notin d.staged
       THEN [store |-> s, staged |-> d.staged, item |-> item(dl, "none", "none"),
             errors |-> IF HasEntry(d.errors, regulation) THEN d.errors
                        ELSE Append(d.errors,
                                 ErrorEntry(regulation, "Download failed/file missing"))]
       ELSE IF c.path = NoPath
       THEN [store |-> s, staged |-> d.staged, errors |-> c.errors,
             item |-> item(dl, IF c.ran THEN conv ELSE "not run", "none")]
       ELSE [store |-> u.store, errors |-> u.errors,
             item |-> item(dl, conv, IF db_ok THEN "ok" ELSE "failed"),
             staged |-> IF \E k \in DOMAIN u.errors :
                              /\ u.errors[k].id = regulation.id
                              /\ u.errors[k].title = regulation.title
                              /\ u.errors[k].reason = "DB update error for html_url"
                        THEN d.staged
                        ELSE _remove_downloaded_original(d.staged, d.path)]

\* the batch returns after its last item
ToNextItem ==
    /\ todo' = Tail(todo)
    /\ pc' = IF Tail(todo) = <<>> THEN "ready" ELSE "batch"

\* handle_file_process() is called: reset the error list, select the rows
BatchBegin ==
    /\ pc = "ready"
    /\ calls < MaxCalls
    /\ calls' = calls + 1
    /\ last' = "batch"
    /\ error_list' = <<>>
    /\ done' = <<>>
    /\ todo' = _get_regulations_needing_html_conversion(store)
    /\ pc' = IF todo' = <<>> THEN "ready" ELSE "batch"
    /\ event' = Event("batch", 0, NoPost)
    /\ prev' = store
    /\ UNCHANGED <<chain, store, flagVars, dietVars, serviceVars, crawlVars, staged, netfails>>

\* one pass of the for loop of handle_file_process()
ProcessItem ==
    /\ pc = "batch"
    /\ LET regulation == store[Head(todo)]
       IN IF regulation.file_url = NoUrl
            THEN /\ error_list' = Append(error_list,
                                      ErrorEntry(regulation, "Skipped: No file_url"))
                 /\ done' = Append(done, [id |-> regulation.id, download |-> "none",
                                          convert |-> "none", db |-> "none"])
                 /\ UNCHANGED <<store, staged>>
            ELSE \E dl \in DownloadOutcomes, conv \in ConvertOutcomes, db_ok \in BOOLEAN :
                    LET r == _process_single_regulation_file(
                                 store, regulation, error_list, staged, dl, conv, db_ok, Now)
                    IN /\ store' = r.store
                       /\ error_list' = r.errors
                       /\ staged' = r.staged
                       /\ done' = Append(done, r.item)
    /\ event' = Event("item", Head(todo), NoPost)
    /\ prev' = store
    /\ ToNextItem
    /\ UNCHANGED <<chain, flagVars, dietVars, serviceVars, crawlVars, calls, last, netfails>>

Next ==
    \/ CrawlBegin
    \/ CrawlBoard
    \/ CrawlPost
    \/ BatchBegin
    \/ ProcessItem

Spec == Init /\ [][Next]_vars

(* ------------------------- dates (datetime) --------------------------- *)
\* A datetime at midnight is its proleptic Gregorian ordinal (date.toordinal():
\* 0001-01-01 is day 1); None is NoDate.
IsLeap(y) == (y % 4 = 0 /\ y % 100 # 0) \/ y % 400 = 0
DaysInMonth(y, m) ==
    CASE m \in {1, 3, 5, 7, 8, 10, 12} -> 31
      [] m \in {4, 6, 9, 11} -> 30
      [] OTHER -> IF IsLeap(y) THEN 29 ELSE 28
DaysBeforeYear(y) == 365 * (y - 1) + ((y - 1) \div 4) - ((y - 1) \div 100) + ((y - 1) \div 400)
RECURSIVE DaysBeforeMonth(_, _)
DaysBeforeMonth(y, m) ==
    IF m = 1 THEN 0 ELSE DaysBeforeMonth(y, m - 1) + DaysInMonth(y, m - 1)

\* datetime.datetime(year, month, day) raises ValueError
IsValidDate(y, m, d) ==
    /\ y \in 1..9999
    /\ m \in 1..12
    /\ d >= 1 /\ d <= DaysInMonth(y, m)
\* datetime.datetime(year, month, day)
datetime(y, m, d) == DaysBeforeYear(y) + DaysBeforeMonth(y, m) + d
\* dt.weekday(): Monday is 0
weekday(dt) == (dt + 6) % 7
\* dt.year
year(dt) ==
    CHOOSE y \in (dt \div 366)..((dt \div 365) + 1) :
        DaysBeforeYear(y) < dt /\ dt <= DaysBeforeYear(y + 1)

\* utils.date_util.get_next_monday with "or 7" dropped: a Monday is its own next Monday
get_next_monday_or_same(dt) == dt + ((7 - weekday(dt)) % 7)

\* utils.date_util.get_next_monday
get_next_monday(dt) ==
    LET days_until_next_monday ==
            IF (7 - weekday(dt)) % 7 # 0 THEN (7 - weekday(dt)) % 7 ELSE 7
    IN dt + days_until_next_monday

\* get_previous_monday whose loop stops at weekday 1: it walks back to a Tuesday
get_previous_tuesday(dt) == dt - ((weekday(dt) + 6) % 7)

\* utils.date_util.get_previous_monday (diet_service.py calls it get_last_monday;
\* Diet.start_date defines the same loop under that name)
RECURSIVE get_previous_monday(_)
get_previous_monday(dt) ==
    IF weekday(dt) # 0 THEN get_previous_monday(dt - 1) ELSE dt

(* ----------------------- titles and re patterns ----------------------- *)
\* A title is a sequence of characters.  "W" is any Hangul syllable or letter
\* other than the two below, "wol" the month suffix and "il" the day suffix of
\* Korean dates; every other character is itself.
\* Hangul syllables are written in Latin letters, one string a syllable; the
\* letters of the English names are one string each.
Hangul ==
    {"bon", "sa", "no", "po", "sin", "pyeong", "ho", "gwang", "an", "dae", "jeo",
     "gyeong", "jeon", "cheol", "sik", "dan"}
Latin ==
    {"H", "u", "m", "e", "t", "r", "o", "Q", "N", "p", "S", "i", "n", "y", "g",
     "G", "w", "a", "D", "j", "L", "h", "R", "l"}
Digits == <<"0", "1", "2", "3", "4", "5", "6", "7", "8", "9">>
IsDigit(c) == \E i \in DOMAIN Digits : Digits[i] = c
\* \w
IsWordChar(c) == IsDigit(c) \/ c \in {"W", "wol", "il", "_"} \cup Hangul \cup Latin
\* int() of one digit
DigitValue(c) == (CHOOSE i \in DOMAIN Digits : Digits[i] = c) - 1
\* int() of a string of digits
RECURSIVE ToInt(_)
ToInt(str) ==
    IF str = <<>> THEN 0
    ELSE 10 * ToInt(SubSeq(str, 1, Len(str) - 1)) + DigitValue(str[Len(str)])

\* the elements of a pattern: \b, a literal, \d{lo,hi}, \s? and (?:...)?
ReB == [k |-> "b", lo |-> 0, hi |-> 0, ch |-> "", sub |-> <<>>]
ReC(c) == [k |-> "c", lo |-> 0, hi |-> 0, ch |-> c, sub |-> <<>>]
ReD(lo, hi) == [k |-> "d", lo |-> lo, hi |-> hi, ch |-> "", sub |-> <<>>]
ReS == [k |-> "s", lo |-> 0, hi |-> 1, ch |-> " ", sub |-> <<>>]
ReOpt(sub) == [k |-> "opt", lo |-> 0, hi |-> 1, ch |-> "", sub |-> sub]

\* \b at offset i of s: exactly one of s[i], s[i + 1] is a word character
AtWordBoundary(s, i) ==
    (i >= 1 /\ IsWordChar(s[i])) # (i < Len(s) /\ IsWordChar(s[i + 1]))

\* how many of the next at most hi characters after offset i are digits in a row
RECURSIVE DigitRun(_, _, _)
DigitRun(s, i, hi) ==
    IF hi = 0 \/ i >= Len(s) \/ ~IsDigit(s[i + 1]) THEN 0
    ELSE 1 + DigitRun(s, i + 1, hi - 1)

\* the offsets at which elements k.. of pattern p can end when they start at
\* offset i, in the order the backtracking matcher tries them (greedy first)
RECURSIVE ReEnds(_, _, _, _)
RECURSIVE ReEndsFrom(_, _, _, _)
ReEnds(p, k, s, i) ==
    IF k > Len(p) THEN <<i>>
    ELSE LET e == p[k]
         IN CASE e.k = "b" ->
                   IF AtWordBoundary(s, i) THEN ReEnds(p, k + 1, s, i) ELSE <<>>
              [] e.k = "c" ->
                   IF i < Len(s) /\ s[i + 1] = e.ch THEN ReEnds(p, k + 1, s, i + 1) ELSE <<>>
              [] e.k = "d" ->
                   LET n == DigitRun(s, i, e.hi)
                   IN IF n < e.lo THEN <<>>
                      ELSE ReEndsFrom(p, k + 1, s, [j \in 1..(n - e.lo + 1) |-> i + n + 1 - j])
              [] e.k = "s" ->
                   (IF i < Len(s) /\ s[i + 1] = " " THEN ReEnds(p, k + 1, s, i + 1) ELSE <<>>)
                       \o ReEnds(p, k + 1, s, i)
              [] OTHER ->
                   ReEndsFrom(p, k + 1, s, ReEnds(e.sub, 1, s, i)) \o ReEnds(p, k + 1, s, i)
ReEndsFrom(p, k, s, starts) ==
    IF starts = <<>> THEN <<>>
    ELSE ReEnds(p, k, s, Head(starts)) \o ReEndsFrom(p, k, s, Tail(starts))

\* the end of the match of p1|p2|... at offset i, -1 when none matches there
RECURSIVE ReMatchAt(_, _, _, _)
ReMatchAt(alts, a, s, i) ==
    IF a > Len(alts) THEN -1
    ELSE LET ends == ReEnds(alts[a], 1, s, i)
         IN IF ends # <<>> THEN Head(ends) ELSE ReMatchAt(alts, a + 1, s, i)

\* re.findall for a pattern without capturing groups: the non-overlapping
\* matches from left to right
RECURSIVE ReFindAll(_, _, _)
ReFindAll(alts, s, i) ==
    IF i >= Len(s) THEN <<>>
    ELSE LET m == ReMatchAt(alts, 1, s, i)
         IN IF m > i THEN <<SubSeq(s, i + 1, m)>> \o ReFindAll(alts, s, m)
            ELSE ReFindAll(alts, s, i + 1)

\* str.split(sep) for a one-character separator
RECURSIVE Split(_, _)
Split(str, sep) ==
    IF \A i \in DOMAIN str : str[i] # sep THEN <<str>>
    ELSE LET i == CHOOSE j \in DOMAIN str :
                      str[j] = sep /\ \A h \in 1..(j - 1) : str[h] # sep
         IN <<SubSeq(str, 1, i - 1)>> \o Split(SubSeq(str, i + 1, Len(str)), sep)

(* -------------- DietUploadService (domain/diet/diet_service.py) ------- *)
\* date_patterns, joined with "|" in this order
date_patterns ==
    << <<ReB, ReOpt(<<ReC("2"), ReC("0"), ReD(2, 2), ReC("/")>>),
         ReD(1, 2), ReC("/"), ReD(1, 2), ReB>>,
       <<ReB, ReD(4, 4), ReC("/"), ReD(1, 2), ReC("/"), ReD(1, 2), ReB>>,
       <<ReB, ReD(1, 2), ReC("/"), ReD(1, 2), ReB>>,
       <<ReB, ReD(1, 2), ReC("."), ReD(1, 2), ReB>>,
       <<ReB, ReD(4, 4), ReC("-"), ReD(1, 2), ReC("-"), ReD(1, 2), ReB>>,
       <<ReB, ReD(1, 2), ReC("-"), ReD(1, 2), ReB>>,
       <<ReB, ReD(1, 2), ReC("wol"), ReS, ReD(1, 2), ReC("il"), ReB>> >>

\* date.replace(".", "/").replace("-", "/").replace("wol", "/").replace("il", "").replace(" ", "")
RECURSIVE NormalizeDate(_)
NormalizeDate(date) ==
    IF date = <<>> THEN <<>>
    ELSE LET c == Head(date)
         IN (CASE c \in {".", "-", "wol"} -> <<"/">>
               [] c \in {"il", " "} -> <<>>
               [] OTHER -> <<c>>) \o NormalizeDate(Tail(date))

\* findall and the normalisation of what it found
extracted_dates(title) ==
    LET found == ReFindAll(date_patterns, title, 0)
    IN [i \in DOMAIN found |-> NormalizeDate(found[i])]

\* ParsedDate that takes the first of three components as the year when it is
\* within five years of the current year
ParsedDate_within_five_years(date_str, current_year) ==
    LET parts == Split(date_str, "/")
        potential_year == ToInt(parts[1])
        with_year == Len(parts) = 3 /\ current_year - 5 <= potential_year
                                    /\ potential_year <= current_year + 5
        y == IF with_year THEN potential_year ELSE current_year
        m == IF with_year THEN ToInt(parts[2]) ELSE ToInt(parts[1])
        d == IF with_year THEN ToInt(parts[3]) ELSE ToInt(parts[2])
    IN IF Len(parts) \notin {2, 3} THEN NoDate
       ELSE IF IsValidDate(y, m, d) THEN datetime(y, m, d) ELSE NoDate

\* one pass of the for loop over extracted_dates: the datetime appended to
\* datetime_list, NoDate when the pass ends in continue
ParsedDate(date_str, current_year) ==
    LET parts == Split(date_str, "/")
        potential_year == ToInt(parts[1])
        with_year == Len(parts) = 3 /\ 2000 <= potential_year
                                    /\ potential_year <= current_year + 5
        y == IF with_year THEN potential_year ELSE current_year
        m == IF with_year THEN ToInt(parts[2]) ELSE ToInt(parts[1])
        d == IF with_year THEN ToInt(parts[3]) ELSE ToInt(parts[2])
    IN IF Len(parts) \notin {2, 3} THEN NoDate
       ELSE IF IsValidDate(y, m, d) THEN datetime(y, m, d) ELSE NoDate

\* int(str) raises ValueError unless str is a run of digits
IsInt(str) == str # <<>> /\ \A i \in DOMAIN str : IsDigit(str[i])

\* the same pass with datetime.datetime(year, month, day) outside its try
ParsedDateRaises_uncaught(date_str, current_year) ==
    LET parts == Split(date_str, "/")
    IN /\ Len(parts) \in {2, 3}
       /\ \/ ~IsInt(parts[1])
          \/ ~IsInt(parts[2])
          \/ ParsedDate(date_str, current_year) = NoDate

\* whether one pass of the for loop raises: the int() calls of the MM/DD
\* branch and of the except branch are outside any try, while the ValueError of
\* datetime.datetime(year, month, day) is caught
ParsedDateRaises(date_str, current_year) ==
    LET parts == Split(date_str, "/")
    IN /\ Len(parts) \in {2, 3}
       /\ \/ ~IsInt(parts[1])
          \/ ~IsInt(parts[2])

\* whether _extract_date_from_title raises
ExtractRaises(title, now) ==
    LET dates == extracted_dates(title)
    IN \E i \in DOMAIN dates : ParsedDateRaises(dates[i], year(now))

\* datetime_list as the for loop leaves it, in the order of the title
DatetimeList(title, now) ==
    LET dates == extracted_dates(title)
        parsed == [i \in DOMAIN dates |-> ParsedDate(dates[i], year(now))]
    IN SelectSeq(parsed, LAMBDA dt : dt # NoDate)

\* list.sort() on datetimes
RECURSIVE SortDates(_)
SortDates(list) ==
    IF list = <<>> THEN <<>>
    ELSE LET least == CHOOSE i \in DOMAIN list :
                          /\ \A j \in DOMAIN list : list[i] <= list[j]
                          /\ \A j \in 1..(i - 1) : list[j] # list[i]
         IN <<list[least]>>
                \o SortDates(SubSeq(list, 1, least - 1) \o SubSeq(list, least + 1, Len(list)))

\* _extract_date_from_title without the sort: the first date of the title is rolled back
_extract_date_from_title_unsorted(title, now) ==
    LET found_dates == DatetimeList(title, now)
    IN IF found_dates = <<>> THEN NoDate
       ELSE get_previous_monday(found_dates[1])

\* DietUploadService._extract_date_from_title; now is datetime.datetime.now()
_extract_date_from_title(title, now) ==
    LET found_dates == DatetimeList(title, now)
    IN IF found_dates = <<>> THEN NoDate
       ELSE get_previous_monday(SortDates(found_dates)[1])

\* DietUploadService._determine_start_date
_determine_start_date(title, parsed_post_create_date, now) ==
    LET extracted_start_date == _extract_date_from_title(title, now)
    IN IF extracted_start_date # NoDate THEN extracted_start_date
       ELSE get_next_monday(parsed_post_create_date)

(* --------------------------- Diet (Diet.py) --------------------------- *)
\* r'(\d{1,2}/\d{1,2}(?:~\d{1,2}(?:/\d{1,2})?)?)'
slash_range_pattern ==
    << <<ReD(1, 2), ReC("/"), ReD(1, 2),
         ReOpt(<<ReC("~"), ReD(1, 2), ReOpt(<<ReC("/"), ReD(1, 2)>>)>>)>> >>
\* r"(\d+\.\d+~\d+\.\d+)"; \d+ is \d{1,n} with n the length of the title
dot_range_pattern(n) ==
    << <<ReD(1, n), ReC("."), ReD(1, n), ReC("~"), ReD(1, n), ReC("."), ReD(1, n)>> >>

\* get_next_monday_year() of Diet.start_date
get_next_monday_year(day) ==
    LET days_until_next_monday == (0 - weekday(day) + 7) % 7
    IN year(day + days_until_next_monday)

\* datetime.datetime.strptime(f'{year}/{date_string}', '%Y/%m/%d') and the same
\* with dots: [raised, value]; %m and %d take one or two digits
strptime(y, date_string, sep) ==
    LET parts == Split(date_string, sep)
        ok == /\ Len(parts) = 2
              /\ \A i \in 1..2 : Len(parts[i]) \in 1..2
              /\ IsValidDate(y, ToInt(parts[1]), ToInt(parts[2]))
    IN IF ok THEN [raised |-> FALSE, value |-> datetime(y, ToInt(parts[1]), ToInt(parts[2]))]
       ELSE [raised |-> TRUE, value |-> NoDate]

\* Diet.start_date: [raised, value]; target_date is Post.target_date
Diet_start_date(title, day, target_date) ==
    LET slash == ReFindAll(slash_range_pattern, title, 0)
        dot == ReFindAll(dot_range_pattern(Len(title)), title, 0)
        rolled(p) == IF p.raised THEN p
                     ELSE [raised |-> FALSE, value |-> get_previous_monday(p.value)]
    IN IF slash # <<>>
       THEN rolled(strptime(get_next_monday_year(day), Split(slash[1], "~")[1], "/"))
       ELSE IF dot # <<>>
       THEN rolled(strptime(get_next_monday_year(day), Split(dot[1], "~")[1], "."))
       ELSE [raised |-> FALSE, value |-> target_date]

(* ------------------------- the diet upload ---------------------------- *)
\* the days on which titles are processed: DayWindow days around a turn of year
FirstDay == datetime(2024, 12, 25)
Days == FirstDay..(FirstDay + DayWindow - 1)
\* the creation dates of the posts: the week before, every weekday once
CreateDays == (FirstDay - 7)..(FirstDay - 1)

\* dates as titles write them: M/D (12/28, 1/3, 9/11, and 2/30, no date of any
\* year), YYYY/M/D (2024/12/30, 1999/9/11 and 2015/9/11), M.D, YYYY-MM-DD, M-D,
\* M wol D il
DateTexts ==
    { <<"1", "2", "/", "2", "8">>,
      <<"1", "/", "3">>,
      <<"9", "/", "1", "1">>,
      <<"2", "/", "3", "0">>,
      <<"2", "0", "2", "4", "/", "1", "2", "/", "3", "0">>,
      <<"1", "9", "9", "9", "/", "9", "/", "1", "1">>,
      <<"2", "0", "1", "5", "/", "9", "/", "1", "1">>,
      <<"1", ".", "6">>,
      <<"2", "0", "2", "5", "-", "0", "1", "-", "0", "7">>,
      <<"1", "2", "-", "3", "1">>,
      <<"1", "wol", " ", "6", "il">> }

\* a title with the range start~end in brackets
RangeTitle(start, end) == <<"W", "(">> \o start \o <<"~">> \o end \o <<")">>

\* a title with two dates apart from each other
TwoDatesTitle(first, second) == <<"W", " ">> \o first \o <<" ">> \o second

\* post titles: no date; one date in brackets; a range start~end; a range
\* whose end is a day only; two dates apart; a date glued to the word before it
DietTitles ==
    {<<"W">>}
    \cup {<<"W", "(">> \o a \o <<")">> : a \in DateTexts}
    \cup {RangeTitle(a, b) : a \in DateTexts, b \in DateTexts}
    \cup {RangeTitle(a, <<"7">>) : a \in DateTexts}
    \cup {TwoDatesTitle(a, b) : a \in DateTexts, b \in DateTexts}
    \cup {<<"W">> \o a : a \in DateTexts}

\* Diet.start_date before it was read
NoResult == [raised |-> FALSE, value |-> NoDate]

\* no diet post to process
DietIdle ==
    /\ post_title = <<>>
    /\ today = NoDate
    /\ post_create_date = NoDate
    /\ datetime_list = <<>>
    /\ start_date = NoDate
    /\ diet_start_date = NoResult
    /\ served = {}

\* the regulation crawler before its first run, with an empty portal
RegulationIdle ==
    /\ chain = <<<<>>, <<>>, <<>>>>
    /\ store = <<>>
    /\ pc = "ready"
    /\ board = 1
    /\ link = NoLink
    /\ hwp5html_available = FALSE
    /\ docker_available = FALSE
    /\ error_list = <<>>
    /\ todo = <<>>
    /\ staged = {}
    /\ calls = 0
    /\ last = "none"
    /\ event = Event("init", 0, NoPost)
    /\ prev = <<>>
    /\ store0 = <<>>
    /\ boardStore = <<>>
    /\ clean = FALSE
    /\ prevClean = FALSE
    /\ done = <<>>
    /\ netfails = 0

\* an upload arrives on some day with some title and creation date; the
\* regulation crawler is idle
DietInit ==
    /\ RegulationIdle
    /\ post_title \in DietTitles
    /\ today \in Days
    /\ post_create_date \in CreateDays
    /\ datetime_list = <<>>
    /\ start_date = NoDate
    /\ diet_start_date = NoResult
    /\ served = {}
    /\ ServiceIdle

\* process_diet_upload_data up to start_date: the dates of the title, then
\* _determine_start_date; an exception of the extractor ends the call
DetermineStartDate ==
    /\ "DietUploadService" \notin served
    /\ post_title # <<>>
    /\ IF ExtractRaises(post_title, today)
       THEN /\ served' = served \cup {"DietUploadService", "ValueError"}
            /\ UNCHANGED <<datetime_list, start_date>>
       ELSE /\ datetime_list' = DatetimeList(post_title, today)
            /\ start_date' =
                  _determine_start_date(post_title, post_create_date, today)
            /\ served' = served \cup {"DietUploadService"}
    /\ UNCHANGED <<post_title, today, post_create_date, diet_start_date,
                   regulationVars, serviceVars>>

\* the crawler side reads Diet.start_date of the same post
DietStartDate ==
    /\ "Diet" \notin served
    /\ post_title # <<>>
    /\ diet_start_date' =
          Diet_start_date(post_title, today, get_next_monday(post_create_date))
    /\ served' = served \cup {"Diet"}
    /\ UNCHANGED <<post_title, today, post_create_date, datetime_list, start_date,
                   regulationVars, serviceVars>>

DietNext ==
    \/ DetermineStartDate
    \/ DietStartDate

DietSpec == DietInit /\ [][DietNext]_vars

(* ------------------ cafeterias (constants/cafeteria.py) --------------- *)
\* CAFETERIA_NAME_TO_ID_MAP in the order of its declaration
CAFETERIA_NAME_TO_ID_MAP ==
    << [name |-> <<"bon", "sa">>, id |-> 1],
       [name |-> <<"H", "u", "m", "e", "t", "r", "o", "H", "Q">>, id |-> 1],
       [name |-> <<"no", "po">>, id |-> 2],
       [name |-> <<"N", "o", "p", "o">>, id |-> 2],
       [name |-> <<"sin", "pyeong">>, id |-> 3],
       [name |-> <<"S", "i", "n", "p", "y", "e", "o", "n", "g">>, id |-> 3],
       [name |-> <<"ho", "po">>, id |-> 4],
       [name |-> <<"H", "o", "p", "o">>, id |-> 4],
       [name |-> <<"gwang", "an">>, id |-> 5],
       [name |-> <<"G", "w", "a", "n", "g", "a", "n">>, id |-> 5],
       [name |-> <<"dae", "jeo">>, id |-> 6],
       [name |-> <<"D", "a", "e", "j", "e", "o">>, id |-> 6],
       [name |-> <<"gyeong", "jeon", "cheol">>, id |-> 7],
       [name |-> <<"L", "i", "g", "h", "t", "R", "a", "i", "l">>, id |-> 7],
       [name |-> <<"an", "pyeong">>, id |-> 7] >>

\* the canonical names without the light rail
CANONICAL_CAFETERIA_NAMES_without_light_rail ==
    << <<"bon", "sa">>, <<"no", "po">>, <<"sin", "pyeong">>, <<"ho", "po">>,
       <<"gwang", "an">>, <<"dae", "jeo">> >>

\* CANONICAL_CAFETERIA_NAMES_FOR_FILENAMES
CANONICAL_CAFETERIA_NAMES_FOR_FILENAMES ==
    << <<"bon", "sa">>, <<"no", "po">>, <<"sin", "pyeong">>, <<"ho", "po">>,
       <<"gwang", "an">>, <<"dae", "jeo">>, <<"gyeong", "jeon", "cheol">> >>

\* Python's None for a cafeteria id and for a name
NoId == 0
NoName == <<>>

\* name in text
Contains(text, name) ==
    \E i \in 0..(Len(text) - Len(name)) :
        SubSeq(text, i + 1, i + Len(name)) = name

\* the position of the leftmost occurrence of name in text
Find(text, name) ==
    CHOOSE i \in 0..(Len(text) - Len(name)) :
        /\ SubSeq(text, i + 1, i + Len(name)) = name
        /\ \A j \in 0..(i - 1) : SubSeq(text, j + 1, j + Len(name)) # name

\* the same loop returning the entry that occurs leftmost in the text
LeftmostAlias(text, k) ==
    LET present == {e \in DOMAIN CAFETERIA_NAME_TO_ID_MAP :
                        Contains(text, CAFETERIA_NAME_TO_ID_MAP[e].name)}
    IN IF present = {} THEN NoId
       ELSE CAFETERIA_NAME_TO_ID_MAP[
                CHOOSE e \in present :
                    \A f \in present :
                        \/ Find(text, CAFETERIA_NAME_TO_ID_MAP[e].name)
                             < Find(text, CAFETERIA_NAME_TO_ID_MAP[f].name)
                        \/ /\ Find(text, CAFETERIA_NAME_TO_ID_MAP[e].name)
                                = Find(text, CAFETERIA_NAME_TO_ID_MAP[f].name)
                           /\ e <= f].id

\* the for loop over CAFETERIA_NAME_TO_ID_MAP.items() from entry k on: the id of
\* the first entry whose name is in the text and whose id has a canonical name
RECURSIVE FirstDeclared(_, _)
FirstDeclared(text, k) ==
    IF k > Len(CAFETERIA_NAME_TO_ID_MAP) THEN NoId
    ELSE LET entry == CAFETERIA_NAME_TO_ID_MAP[k]
         IN IF /\ Contains(text, entry.name)
               /\ 0 < entry.id
               /\ entry.id <= Len(CANONICAL_CAFETERIA_NAMES_FOR_FILENAMES)
            THEN entry.id
            ELSE FirstDeclared(text, k + 1)

\* DietUploadService._determine_cafeteria_info: [cafeteria_id, cafeteria_name_for_file]
_determine_cafeteria_info(title) ==
    LET c_id == FirstDeclared(title, 1)
    IN IF c_id = NoId
       THEN [cafeteria_id |-> NoId, cafeteria_name_for_file |-> NoName]
       ELSE [cafeteria_id |-> c_id,
             cafeteria_name_for_file |-> CANONICAL_CAFETERIA_NAMES_FOR_FILENAMES[c_id]]

\* a resolver that falls back to the head office
determine_location_or_head_office(text) ==
    LET c_id == FirstDeclared(text, 1)
    IN IF c_id = NoId THEN CANONICAL_CAFETERIA_NAMES_FOR_FILENAMES[1]
       ELSE CANONICAL_CAFETERIA_NAMES_FOR_FILENAMES[c_id]

\* determine_location_from_utterance: the canonical name, NoName for None
determine_location_from_utterance(text) ==
    LET c_id == FirstDeclared(text, 1)
    IN IF c_id = NoId THEN NoName
       ELSE CANONICAL_CAFETERIA_NAMES_FOR_FILENAMES[c_id]

(* ------------------------- location resolution ----------------------- *)
\* texts to resolve: up to two words, each an alias, a word without an alias,
\* a lower-case spelling or a part of an alias
Words ==
    {CAFETERIA_NAME_TO_ID_MAP[k].name : k \in DOMAIN CAFETERIA_NAME_TO_ID_MAP}
    \cup {<<"sik", "dan">>, <<" ">>, <<"n", "o", "p", "o">>, <<"gyeong", "jeon">>}
Utterances == Words \cup {a \o b : a \in Words, b \in Words}

\* a text arrives; nothing else runs
LocationInit ==
    /\ RegulationIdle
    /\ DietIdle
    /\ UploadIdle
    /\ ChatIdle
    /\ SideIdle
    /\ utterance \in Utterances
    /\ determined_location = NoName
    /\ cafeteria_info = [cafeteria_id |-> NoId, cafeteria_name_for_file |-> NoName]
    /\ resolved = {}

\* the chatbot path resolves the text
DetermineLocation ==
    /\ "determine_location_from_utterance" \notin resolved
    /\ utterance # <<>>
    /\ determined_location' = determine_location_from_utterance(utterance)
    /\ resolved' = resolved \cup {"determine_location_from_utterance"}
    /\ UNCHANGED <<utterance, cafeteria_info, regulationVars, dietVars, uploadVars,
                   chatVars, sideVars>>

\* the upload path resolves the text
DetermineCafeteriaInfo ==
    /\ "_determine_cafeteria_info" \notin resolved
    /\ utterance # <<>>
    /\ cafeteria_info' = _determine_cafeteria_info(utterance)
    /\ resolved' = resolved \cup {"_determine_cafeteria_info"}
    /\ UNCHANGED <<utterance, determined_location, regulationVars, dietVars, uploadVars,
                   chatVars, sideVars>>

LocationNext ==
    \/ DetermineLocation
    \/ DetermineCafeteriaInfo

LocationSpec == LocationInit /\ [][LocationNext]_vars

(* ---------- diet upload and diet skill (domain/diet/diet_router.py) ---- *)
\* dt.month and dt.day
MonthOf(dt) ==
    LET y == year(dt)
        day_of_year == dt - DaysBeforeYear(y)
    IN CHOOSE m \in 1..12 :
           /\ DaysBeforeMonth(y, m) < day_of_year
           /\ day_of_year <= DaysBeforeMonth(y, m) + DaysInMonth(y, m)
DayOf(dt) == dt - DaysBeforeYear(year(dt)) - DaysBeforeMonth(year(dt), MonthOf(dt))

\* dt.strftime("%y%m%d") as [yy, mm, dd]
strftime_yymmdd(dt) ==
    CHOOSE text \in {[yy |-> year(d) % 100, mm |-> MonthOf(d), dd |-> DayOf(d)] :
                        d \in {dt}} : TRUE

\* re.fullmatch(r'^\d{6}$', s)
IsSixDigits(s) == Len(s) = 6 /\ \A i \in DOMAIN s : IsDigit(s[i])

\* datetime.datetime.strptime(s, '%y%m%d') of six digits: [raised, value]; %y
\* below 69 is 20yy, from 69 on 19yy
strptime_yymmdd(s) ==
    LET yy == ToInt(SubSeq(s, 1, 2))
        y == IF yy < 69 THEN 2000 + yy ELSE 1900 + yy
        m == ToInt(SubSeq(s, 3, 4))
        d == ToInt(SubSeq(s, 5, 6))
    IN IF IsValidDate(y, m, d)
       THEN [raised |-> FALSE, value |-> datetime(y, m, d)]
       ELSE [raised |-> TRUE, value |-> NoDate]

\* img_filename = f'{start_date.strftime("%y%m%d")}_{cafeteria_name_for_file}.jpg';
\* img_url and img_path are this name under two fixed directories
img_filename(date, cafeteria_name_for_file) ==
    [date |-> strftime_yymmdd(date), name |-> cafeteria_name_for_file]

\* process_diet_upload_data: [raised, data]
NoData ==
    [post_title |-> <<>>, post_create_date |-> NoDate, start_date |-> NoDate,
     cafeteria_id |-> NoId, img_url |-> img_filename(1, NoName),
     img_path |-> img_filename(1, NoName)]
process_diet_upload_data(title, post_create_date_str, now) ==
    LET parsed == strptime_yymmdd(post_create_date_str)
        info == _determine_cafeteria_info(title)
        start == _determine_start_date(title, parsed.value, now)
    IN IF parsed.raised \/ ExtractRaises(title, now) \/ info.cafeteria_id = NoId
       THEN [raised |-> TRUE, data |-> NoData]
       ELSE [raised |-> FALSE,
             data |-> [post_title |-> title,
                       post_create_date |-> parsed.value,
                       start_date |-> start,
                       cafeteria_id |-> info.cafeteria_id,
                       img_url |-> img_filename(start, info.cafeteria_name_for_file),
                       img_path |-> img_filename(start, info.cafeteria_name_for_file)]]

\* db.query(Diet).filter_by(cafeteria_id=..., start_date=...).first(): the index
\* of the row, 0 for None
FindDiet(rows, cafeteria_id, date) ==
    IF \E i \in DOMAIN rows :
          rows[i].cafeteria_id = cafeteria_id /\ rows[i].start_date = date
    THEN CHOOSE i \in DOMAIN rows :
            /\ rows[i].cafeteria_id = cafeteria_id /\ rows[i].start_date = date
            /\ \A j \in 1..(i - 1) :
                  ~(rows[j].cafeteria_id = cafeteria_id /\ rows[j].start_date = date)
    ELSE 0

\* create_diet as an insert only
create_diet_always_adds(rows, data) == Append(rows, data)

\* create_diet: the rows after the commit
create_diet(rows, data) ==
    LET i == FindDiet(rows, data.cafeteria_id, data.start_date)
    IN IF i # 0
       THEN [rows EXCEPT ![i].post_title = data.post_title,
                         ![i].post_create_date = data.post_create_date,
                         ![i].img_url = data.img_url,
                         ![i].img_path = data.img_path]
       ELSE Append(rows, data)

\* the id of the Cafeteria row of a location: the rows carry the ids of the
\* alias table
CafeteriaRowId(location) ==
    CHOOSE i \in DOMAIN CANONICAL_CAFETERIA_NAMES_FOR_FILENAMES :
        CANONICAL_CAFETERIA_NAMES_FOR_FILENAMES[i] = location

\* get_weekly_diets once the cafeteria id is known: the rows of this and of
\* next week, ordered by start_date
WeeklyDiets(rows, cafeteria_id, now) ==
    LET this == SelectSeq(rows, LAMBDA r : r.cafeteria_id = cafeteria_id
                                           /\ r.start_date = get_previous_monday(now))
        next == SelectSeq(rows, LAMBDA r : r.cafeteria_id = cafeteria_id
                                           /\ r.start_date = get_next_monday(now))
    IN this \o next

\* what a request was and what was answered
Request(op, text, date_str, content_type) ==
    [op |-> op, text |-> text, post_create_date |-> date_str,
     content_type |-> content_type]
Reply(status, kind, queried, items) ==
    [status |-> status, kind |-> kind, queried |-> queried, items |-> items]

\* titles of uploads: an alias with a date, two aliases of one cafeteria with
\* the same date, an alias without a date, and titles without an alias
UploadTitles ==
    { <<"bon", "sa", " ", "(", "1", "2", "/", "3", "0", "~", "1", "/", "3", ")">>,
      <<"an", "pyeong", " ", "1", "2", "/", "3", "0">>,
      <<"gyeong", "jeon", "cheol", " ", "sik", "dan", " ", "1", "2", "/", "3", "0">>,
      <<"no", "po", " ", "sik", "dan">>,
      <<"sik", "dan", " ", "1", "2", "/", "3", "0">>,
      <<"n", "o", "p", "o", " ", "2", "/", "3", "0">> }
\* creation dates as the form field carries them: two dates, a day that no
\* month has, and strings that are not six digits
CreateDateStrings ==
    { <<"2", "4", "1", "2", "2", "3">>, <<"2", "4", "1", "2", "2", "6">>,
      <<"2", "4", "1", "2", "3", "2">>, <<"2", "4", "1", "2">>,
      <<"2", "4", "-", "1", "2", "-">> }
ContentTypes == {"image/jpeg", "text/plain"}
\* a check that lets every content type pass
IsImage_any(content_type) == TRUE
\* "image" in upload_file.content_type
IsImage(content_type) == content_type = "image/jpeg"

\* what users say to the diet skill
SkillUtterances ==
    { <<"bon", "sa", " ", "sik", "dan">>,
      <<"an", "pyeong", " ", "sik", "dan">>,
      <<"gyeong", "jeon", "cheol">>,
      <<"sik", "dan">>,
      <<"n", "o", "p", "o">> }

UploadDays == {FirstDay, FirstDay + 7}

\* the upload service starts with an empty diets table and no image
UploadInit ==
    /\ RegulationIdle
    /\ post_title = <<>>
    /\ today \in UploadDays
    /\ post_create_date = NoDate
    /\ datetime_list = <<>>
    /\ start_date = NoDate
    /\ diet_start_date = NoResult
    /\ served = {}
    /\ diets = <<>>
    /\ images = {}
    /\ uploads = 0
    /\ request = Request("none", <<>>, <<>>, "")
    /\ reply = Reply(0, "none", FALSE, <<>>)
    /\ before = [diets |-> <<>>, images |-> {}]
    /\ LocationIdle
    /\ ChatIdle
    /\ SideIdle

\* POST /diet/upload
upload_diet ==
    /\ uploads < MaxUploads
    /\ \E title \in UploadTitles, date_str \in CreateDateStrings :
       \E processed \in {IF IsSixDigits(date_str)
                          THEN process_diet_upload_data(title, date_str, today)
                          ELSE [raised |-> TRUE, data |-> NoData]} :
       \E content_type \in ContentTypes, commit \in {"ok", "failed"},
          written \in BOOLEAN :
          /\ request' = Request("upload", title, date_str, content_type)
          /\ before' = [diets |-> diets, images |-> images]
          /\ uploads' = uploads + 1
          /\ IF ~IsImage(content_type)
             THEN /\ reply' = Reply(400, "Not valid image file", FALSE, <<>>)
                  /\ commit = "ok" /\ written
                  /\ UNCHANGED <<diets, images>>
             ELSE IF ~IsSixDigits(date_str)
             THEN /\ reply' = Reply(400, "post_create_date must be in yymmdd format",
                                    FALSE, <<>>)
                  /\ commit = "ok" /\ written
                  /\ UNCHANGED <<diets, images>>
             ELSE IF processed.raised
             THEN /\ reply' = Reply(400, "ValueError", FALSE, <<>>)
                  /\ commit = "ok" /\ written
                  /\ UNCHANGED <<diets, images>>
             ELSE IF commit = "failed"
             THEN /\ reply' = Reply(500, "commit failed", TRUE, <<>>)
                  /\ written
                  /\ UNCHANGED <<diets, images>>
             ELSE /\ diets' = create_diet(diets, processed.data)
                  /\ images' = IF written THEN images \cup {processed.data.img_path}
                               ELSE images
                  /\ reply' = Reply(200, "Image uploaded successfully", TRUE,
                                    <<processed.data>>)
    /\ UNCHANGED <<regulationVars, dietVars, locationVars,
                 chatVars, sideVars>>

\* POST /diet/skill
diet_skill ==
    /\ \E user_utterance \in SkillUtterances, cafeteria_found \in BOOLEAN :
          LET location == determine_location_from_utterance(user_utterance)
              found == WeeklyDiets(diets, CafeteriaRowId(location), today)
          IN /\ request' = Request("skill", user_utterance, <<>>, "")
             /\ before' = [diets |-> diets, images |-> images]
             /\ IF location = NoName
                THEN /\ reply' = Reply(200, "name the cafeteria", FALSE, <<>>)
                     /\ cafeteria_found
                ELSE IF ~cafeteria_found \/ found = <<>>
                THEN reply' = Reply(200, "no diet data", TRUE, <<>>)
                ELSE reply' = Reply(200, "carousel", TRUE, found)
    /\ UNCHANGED <<diets, images, uploads, regulationVars, dietVars, locationVars,
                 chatVars, sideVars>>

UploadNext ==
    \/ upload_diet
    \/ diet_skill

UploadSpec == UploadInit /\ [][UploadNext]_vars

(* ------------------------------ properties ---------------------------- *)
Range(q) == {q[k] : k \in DOMAIN q}
Max(S) == CHOOSE x \in S : \A y \in S : y <= x

\* the row and the post have the same (title, type)
KeyMatch(row, post) == row.title = post.title /\ row.type = post.type

\* the last step was a pass of the while loop in which handle_post returned a post
PostHandled == event.post # NoPost

\* the item went through download, conversion and the store update
ItemSucceeded(it) == it.download = "ok" /\ it.convert = "rc0" /\ it.db = "ok"
LastItem == done[Len(done)]
EntriesOf(id) == {k \in DOMAIN error_list : error_list[k].id = id}

\* C1: a crawl() that follows a crawl() of the same portal, neither of them
\* disturbed by a network failure, inserts and updates nothing: in every state
\* of the second run the store is the store the run began with.
C1_Idempotent ==
    (last = "crawl" /\ prevClean /\ clean) =>
        (store = store0 /\ event.op \notin {"insert", "update"})

C1_SecondRunFinished ==
    /\ pc = "ready" /\ last = "crawl" /\ prevClean /\ clean
    /\ Len(store) >= 1
    /\ event.op = "skip"

\* C2: a post whose (title, type) matches a stored row and whose create_date
\* is not later than the row's leaves the whole store as it was.
C2_NonRegression ==
    (PostHandled /\ \E i \in DOMAIN prev :
        KeyMatch(prev[i], event.post) /\ event.post.create_date <= prev[i].create_date)
    => store = prev

C2_OlderPostOfConvertedRow ==
    /\ PostHandled
    /\ \E i \in DOMAIN prev :
        /\ KeyMatch(prev[i], event.post)
        /\ event.post.create_date < prev[i].create_date
        /\ prev[i].html_url # NoPath

\* C3: a post strictly newer than the matching stored row gives the row its
\* create_date, enforce_date and file_url and sets html_url to None.
C3_ForcedReconversion ==
    \A i \in DOMAIN prev :
        (PostHandled /\ KeyMatch(prev[i], event.post)
                     /\ prev[i].create_date < event.post.create_date)
        => /\ store[i].create_date = event.post.create_date
           /\ store[i].enforce_date = event.post.enforce_date
           /\ store[i].file_url = event.post.file_url
           /\ store[i].html_url = NoPath

C3_ConvertedRowUpdated ==
    /\ PostHandled
    /\ \E i \in DOMAIN prev :
        /\ KeyMatch(prev[i], event.post)
        /\ prev[i].create_date < event.post.create_date
        /\ prev[i].html_url # NoPath
        /\ prev[i].file_url # event.post.file_url

\* C4: the store never holds two rows with the same (title, type).
C4_OneRowPerKey ==
    \A i, j \in DOMAIN store :
        (store[i].title = store[j].title /\ store[i].type = store[j].type) => i = j

C4_TwoRowsAndAMatch ==
    /\ Len(store) >= 2
    /\ event.op \in {"skip", "update"}

\* C5: when the walk of a board reached its last post with every post handled,
\* each (title, type) of the board is stored with the greatest create_date
\* among the board's posts of that key and the row stored when the walk began.
BoardWalked == event.op \in {"insert", "update", "skip"} /\ event.post.next_link = NoLink
C5_LatestKnown ==
    BoardWalked =>
        \A k \in DOMAIN chain[event.id] :
            LET pg == chain[event.id][k]
                rows == {i \in DOMAIN store : KeyMatch(store[i], pg)}
                seen == {chain[event.id][m].create_date :
                            m \in {n \in DOMAIN chain[event.id] :
                                      KeyMatch(chain[event.id][n], pg)}}
                        \cup {boardStore[i].create_date :
                                i \in {n \in DOMAIN boardStore : KeyMatch(boardStore[n], pg)}}
            IN /\ rows # {}
               /\ \A i \in rows : store[i].create_date = Max(seen)

C5_OlderThenNewerWalked ==
    /\ BoardWalked
    /\ Len(chain[event.id]) = 2
    /\ KeyMatch(chain[event.id][1], chain[event.id][2])
    /\ chain[event.id][1].create_date < chain[event.id][2].create_date

\* C6 (as claimed): every post handle_post returned is in the store after its
\* upsert, whatever rows of other (title, type) pairs the store holds.
C6_PairIsTheIdentity ==
    PostHandled => \E i \in DOMAIN store : KeyMatch(store[i], event.post)

\* C7: in a batch, every item that went through download, conversion and store
\* update has html_url set and no entry in the error list; every other item
\* has html_url None and exactly one entry.
C7_PartialFailure ==
    last = "batch" =>
        \A k \in DOMAIN done :
            IF ItemSucceeded(done[k])
            THEN /\ store[done[k].id].html_url # NoPath
                 /\ EntriesOf(done[k].id) = {}
            ELSE /\ store[done[k].id].html_url = NoPath
                 /\ Cardinality(EntriesOf(done[k].id)) = 1

C7_MixedBatch ==
    /\ pc = "ready" /\ last = "batch"
    /\ \E k, m \in DOMAIN done :
        /\ done[k].download \in DownloadOutcomes \ {"ok"}
        /\ ItemSucceeded(done[m])

C9_OnlyPendingRows ==
    event.op = "item" =>
        /\ LastItem.id = event.id
        /\ LastItem.download # "none" =>
              (prev[event.id].html_url = NoPath /\ prev[event.id].file_url # NoUrl)
        /\ \A i \in DOMAIN prev : prev[i].html_url # NoPath => store[i] = prev[i]

C9_ConvertedRowLeftAlone ==
    /\ event.op = "item"
    /\ LastItem.download # "none"
    /\ \E i \in DOMAIN prev : prev[i].html_url # NoPath

\* C10: a post whose fetch or parse failed changes no row and ends the walk of
\* its board only: the loop is at the next board, and a crawl() that was not
\* ended by a commit error has gone through every board.
C10_PostFailureSkipsBoard ==
    /\ event.op = "post_failed" =>
        /\ store = prev
        /\ link = NoLink
        /\ board = event.id + 1
        /\ pc = IF event.id < Len(target_boards) THEN "board" ELSE "ready"
    /\ (pc = "ready" /\ last = "crawl" /\ event.op # "integrity_error") =>
        board = Len(target_boards) + 1

C10_FailureAfterCommit ==
    /\ event.op = "post_failed"
    /\ store # store0
    /\ event.id < Len(target_boards)

\* C11: a board whose listing page could not be fetched gets no store write:
\* the step changes no row, no post of the board is walked, and the for loop
\* is at the next board (crawl() returns after the last one).
C11_ListingFailureSkipsBoard ==
    event.op = "listing_failed" =>
        /\ store = prev
        /\ link = NoLink
        /\ board = event.id + 1
        /\ pc = IF event.id < Len(target_boards) THEN "board" ELSE "ready"

C11_FailedListingOfBoardWithPosts ==
    /\ event.op = "listing_failed"
    /\ event.id < Len(target_boards)
    /\ chain[event.id] # <<>>
    /\ store # <<>>

\* C12 (as claimed): whatever failed on single posts, a crawl() that has
\* returned went through every configured board; and whatever failed on single
\* regulations, a batch that has returned handled every row it selected.
C12_FailureStaysInsideTheLoop ==
    /\ (pc = "ready" /\ last = "crawl") => board = Len(target_boards) + 1
    /\ (pc = "ready" /\ last = "batch") =>
          /\ todo = <<>>
          /\ \A i \in DOMAIN store :
                prev[i].html_url = NoPath => \E k \in DOMAIN done : done[k].id = i

\* the extension derived from the row's file_url is neither hwp nor pdf
Unsupported(regulation) ==
    /\ regulation.file_url # NoUrl
    /\ _get_file_extension_from_url(regulation.file_url) \notin {"hwp", "pdf"}

\* C13: a row whose file_url gives an extension other than hwp and pdf (the
\* fallback "bin" included) has html_url None in every state, and every batch
\* step that processes it leaves an entry of it in the error list.
C13_UnsupportedNeverConverted ==
    /\ \A i \in DOMAIN store : Unsupported(store[i]) => store[i].html_url = NoPath
    /\ (event.op = "item" /\ Unsupported(prev[event.id])) =>
          /\ EntriesOf(event.id) # {}
          /\ LastItem.convert \in {"none", "not run"}

C13_UnsupportedSelectedAgain ==
    /\ event.op = "batch"
    /\ \E i \in Range(todo) :
        /\ Unsupported(store[i])
        /\ _get_file_extension_from_url(store[i].file_url) = "bin"
        /\ _generate_download_filename(store[i], "bin") \in staged

\* the row's attachment needs a converter the probe did not find
ConverterMissing(regulation) ==
    /\ regulation.file_url # NoUrl
    /\ \/ /\ _get_file_extension_from_url(regulation.file_url) = "hwp"
          /\ ~hwp5html_available
       \/ /\ _get_file_extension_from_url(regulation.file_url) = "pdf"
          /\ ~docker_available

\* what C14 says of one state: a batch step on a row whose converter is
\* missing invokes no converter, leaves an entry of the row and html_url None;
\* and the batch that begins selects every such row that is pending
C14_SkippedInThisRun ==
    /\ (event.op = "item" /\ ConverterMissing(prev[event.id])) =>
          /\ LastItem.convert \in {"none", "not run"}
          /\ EntriesOf(event.id) # {}
          /\ store[event.id].html_url = NoPath
    /\ event.op = "batch" =>
          \A i \in DOMAIN store :
              (ConverterMissing(store[i]) /\ store[i].html_url = NoPath)
                  => i \in Range(todo)

StagedName(regulation) ==
    _generate_download_filename(
        regulation, _get_file_extension_from_url(regulation.file_url))

\* C15: a step removes a staged original only when it is the batch step of
\* that regulation, its download, conversion and html_url commit succeeded and
\* KEEP_DOWNLOADED_ORIGINALS is off; an original downloaded in a step whose
\* conversion or html_url commit failed is still staged after the step.
C15_OriginalDeletedOnlyOnSuccess ==
    [][/\ \A f \in staged \ staged' :
            /\ event'.op = "item"
            /\ f = StagedName(store[event'.id])
            /\ ItemSucceeded(done'[Len(done')])
            /\ ~KEEP_DOWNLOADED_ORIGINALS
       /\ (/\ event'.op = "item"
           /\ done'[Len(done')].download = "ok"
           /\ ~ItemSucceeded(done'[Len(done')]))
          => StagedName(store[event'.id]) \in staged']_vars

C15_KeptAfterFailedCommit ==
    /\ event.op = "item"
    /\ LastItem.convert = "rc0"
    /\ LastItem.db = "failed"
    /\ StagedName(store[event.id]) \in staged
    /\ \E k \in DOMAIN done :
        /\ ItemSucceeded(done[k])
        /\ StagedName(store[done[k].id]) \notin staged

(* ------------------------ diet upload properties ---------------------- *)
\* the date _extract_date_from_title selects: datetime_list[0] after the sort
SelectedDate == CHOOSE dt \in Range(datetime_list) :
                    \A other \in Range(datetime_list) : dt <= other

\* the upload service has computed start_date from a title with a valid date
Extracted == "DietUploadService" \in served /\ datetime_list # <<>>

\* C16: whenever a valid date is recognized in the title, the extractor's
\* result is a Monday, on or before the selected date and at most 6 days
\* before it, and it is the selected date itself when that is a Monday; the
\* start date read on the crawler side is a Monday as well.
C16_RolledBackToMonday ==
    /\ Extracted =>
          /\ weekday(start_date) = 0
          /\ start_date <= SelectedDate
          /\ SelectedDate - start_date <= 6
          /\ weekday(SelectedDate) = 0 => start_date = SelectedDate
    /\ ("Diet" \in served /\ ~diet_start_date.raised) =>
          weekday(diet_start_date.value) = 0

C16_SundayRolledBackSixDays ==
    /\ Extracted
    /\ weekday(SelectedDate) = 6
    /\ start_date = SelectedDate - 6
    /\ "Diet" \in served

\* the date the upload service makes of one date text of the title
DateOf(text) == ParsedDate(NormalizeDate(text), year(today))

\* C17 (as claimed): for a title with a range start~end whose start is a
\* valid date, the upload service's start date is the Monday on or before the
\* start of the range, whatever the end is.
C17_OnlyTheStartOfARange ==
    \A a \in DateTexts, b \in DateTexts \cup {<<"7">>} :
        (/\ post_title = RangeTitle(a, b)
         /\ "DietUploadService" \in served
         /\ DateOf(a) # NoDate)
        => start_date = get_previous_monday(DateOf(a))

\* C18: when several dates of the title are valid, the upload service rolls
\* back the chronologically earliest of them (after year assignment), and a
\* title with the same two dates in the other order gives the same start date.
C18_EarliestDateSelected ==
    /\ (Extracted /\ Len(datetime_list) >= 2) =>
          /\ \A i \in DOMAIN datetime_list : SelectedDate <= datetime_list[i]
          /\ start_date = get_previous_monday(SelectedDate)
    /\ \A a \in DateTexts, b \in DateTexts :
          (post_title = TwoDatesTitle(a, b) /\ "DietUploadService" \in served)
          => start_date = _determine_start_date(TwoDatesTitle(b, a),
                                                post_create_date, today)

C18_LaterDateComesFirst ==
    /\ Extracted
    /\ Len(datetime_list) = 2
    /\ datetime_list[2] < datetime_list[1]
    /\ start_date = get_previous_monday(datetime_list[2])
    /\ start_date # get_previous_monday(datetime_list[1])

\* the date texts without a year, as month and day
MonthDay(text) ==
    LET parts == Split(NormalizeDate(text), "/")
    IN [month |-> ToInt(parts[1]), day |-> ToInt(parts[2])]
Yearless(text) == Len(Split(NormalizeDate(text), "/")) = 2

\* the date of a text without a year, in the year of the next upcoming Monday
InNextMondayYear(text) ==
    datetime(get_next_monday_year(today), MonthDay(text).month, MonthDay(text).day)

\* C19 (as claimed): a date of the title without a year is placed in the year
\* of the next upcoming Monday relative to the day of processing, by the
\* upload service and by Diet.start_date.
C19_YearOfTheNextMonday ==
    \A a \in DateTexts :
        (/\ post_title = <<"W", "(">> \o a \o <<")">>
         /\ Yearless(a)
         /\ DateOf(a) # NoDate)
        => /\ "DietUploadService" \in served =>
                 /\ datetime_list = <<InNextMondayYear(a)>>
                 /\ start_date = get_previous_monday(InNextMondayYear(a))
           /\ ("Diet" \in served /\ "/" \in Range(a)) =>
                 /\ ~diet_start_date.raised
                 /\ diet_start_date.value = get_previous_monday(InNextMondayYear(a))

\* C20: when no valid date is found in the title, the upload service's start
\* date is the first Monday strictly after the post's creation date: 1 to 7
\* days later, and 7 days later when the post was created on a Monday.
C20_NextMondayAfterCreation ==
    ("DietUploadService" \in served /\ datetime_list = <<>>) =>
        /\ weekday(start_date) = 0
        /\ start_date - post_create_date \in 1..7
        /\ weekday(post_create_date) = 0 => start_date = post_create_date + 7

C20_CreatedOnAMonday ==
    /\ "DietUploadService" \in served
    /\ datetime_list = <<>>
    /\ post_title # <<"W">>
    /\ weekday(post_create_date) = 0
    /\ start_date = post_create_date + 7

\* C21: the extractor never raises; in a title with two date texts the
\* impossible one is skipped and the other is still used; and when no valid
\* date is left the extractor returns None, so that the start date is the
\* fallback of _determine_start_date.
C21_ExtractorNeverRaises ==
    /\ "ValueError" \notin served
    /\ "DietUploadService" \in served =>
          /\ \A a \in DateTexts, b \in DateTexts :
                post_title = TwoDatesTitle(a, b) =>
                    datetime_list =
                        SelectSeq(<<DateOf(a), DateOf(b)>>, LAMBDA dt : dt # NoDate)
          /\ datetime_list = <<>> =>
                start_date = get_next_monday(post_create_date)

C21_ImpossibleDateSkipped ==
    /\ "DietUploadService" \in served
    /\ \E b \in DateTexts :
          /\ post_title = TwoDatesTitle(<<"2", "/", "3", "0">>, b)
          /\ datetime_list = <<DateOf(b)>>
          /\ start_date = get_previous_monday(DateOf(b))

(* ----------------------- cafeteria resolution properties ------------------ *)
\* the entries of the alias table whose name occurs in the text
AliasesIn(text) ==
    {k \in DOMAIN CAFETERIA_NAME_TO_ID_MAP :
        \E i \in 1..Len(text) :
            /\ i + Len(CAFETERIA_NAME_TO_ID_MAP[k].name) - 1 <= Len(text)
            /\ \A j \in DOMAIN CAFETERIA_NAME_TO_ID_MAP[k].name :
                  text[i + j - 1] = CAFETERIA_NAME_TO_ID_MAP[k].name[j]}
\* the entry declared first among them
DeclaredFirst(text) == CHOOSE k \in AliasesIn(text) : \A e \in AliasesIn(text) : k <= e
\* the text is the first alias name followed by the second
Joined(first, second) ==
    utterance = CAFETERIA_NAME_TO_ID_MAP[first].name \o CAFETERIA_NAME_TO_ID_MAP[second].name

\* C22: when a text contains several aliases, both resolvers return the facility
\* of the alias declared first in the alias table, wherever the aliases stand in
\* the text and however long they are.
C22_FirstDeclaredAliasWins ==
    AliasesIn(utterance) # {} =>
        /\ "_determine_cafeteria_info" \in resolved =>
              cafeteria_info.cafeteria_id
                  = CAFETERIA_NAME_TO_ID_MAP[DeclaredFirst(utterance)].id
        /\ "determine_location_from_utterance" \in resolved =>
              determined_location
                  = CANONICAL_CAFETERIA_NAMES_FOR_FILENAMES[
                        CAFETERIA_NAME_TO_ID_MAP[DeclaredFirst(utterance)].id]
\* the later-declared, longer alias LightRail stands before the alias of the
\* head office, and both resolvers answer the head office
C22_LaterAliasStandsFirst ==
    /\ resolved = {"_determine_cafeteria_info", "determine_location_from_utterance"}
    /\ Joined(14, 1)
    /\ cafeteria_info.cafeteria_id = 1
    /\ determined_location = <<"bon", "sa">>

\* C26: a text whose only alias is "an pyeong" resolves to id 7 and the canonical
\* name of the light rail, the same as the text "gyeong jeon cheol".
C26_AnpyeongIsLightRail ==
    (/\ "_determine_cafeteria_info" \in resolved
     /\ "determine_location_from_utterance" \in resolved
     /\ AliasesIn(utterance) = {15}) =>
        /\ cafeteria_info = [cafeteria_id |-> 7,
                             cafeteria_name_for_file |-> <<"gyeong", "jeon", "cheol">>]
        /\ determined_location = <<"gyeong", "jeon", "cheol">>
        /\ cafeteria_info = _determine_cafeteria_info(<<"gyeong", "jeon", "cheol">>)
        /\ determined_location
              = determine_location_from_utterance(<<"gyeong", "jeon", "cheol">>)
\* "an pyeong" next to a word that is no alias
C26_OnlyAnpyeong ==
    /\ resolved = {"_determine_cafeteria_info", "determine_location_from_utterance"}
    /\ utterance = <<"an", "pyeong">> \o <<"sik", "dan">>
    /\ AliasesIn(utterance) = {15}
    /\ cafeteria_info.cafeteria_id = 7

(* ------------------------- upload and skill properties -------------------- *)
\* the form field is six digits that name a day of the calendar
IsYymmdd(s) ==
    /\ Len(s) = 6
    /\ \A i \in DOMAIN s : s[i] \in {"0", "1", "2", "3", "4", "5", "6", "7", "8", "9"}
    /\ IsValidDate(IF ToInt(SubSeq(s, 1, 2)) < 69 THEN 2000 + ToInt(SubSeq(s, 1, 2))
                   ELSE 1900 + ToInt(SubSeq(s, 1, 2)),
                   ToInt(SubSeq(s, 3, 4)), ToInt(SubSeq(s, 5, 6)))
\* the last request was an upload that was answered with a validation error
Rejected == request.op = "upload" /\ reply.status = 400
\* the store and the image directory are as before the last request
StoreUntouched == diets = before.diets /\ images = before.images

\* C23: a text that contains no alias: the chatbot path answers normally, asks
\* to name the cafeteria and makes no store query; the upload path rejects the
\* upload with a validation error.
C23_NoAliasNoCafeteria ==
    /\ (request.op = "skill" /\ AliasesIn(request.text) = {}) =>
          /\ reply = Reply(200, "name the cafeteria", FALSE, <<>>)
          /\ StoreUntouched
    /\ (request.op = "upload" /\ AliasesIn(request.text) = {}) =>
          /\ reply.status = 400
          /\ ~reply.queried
          /\ (request.content_type = "image/jpeg" /\ IsYymmdd(request.post_create_date))
                => reply.kind = "ValueError"
\* the skill is asked without a cafeteria name while the store holds a diet
C23_SkillAskedWithoutCafeteria ==
    /\ request.op = "skill"
    /\ request.text = <<"sik", "dan">>
    /\ diets # <<>>
    /\ reply.kind = "name the cafeteria"
    /\ ~reply.queried

\* C24: an upload that is not an image, whose creation date is not a valid
\* six-digit yymmdd string, or whose title names no cafeteria is rejected, and
\* a rejected upload leaves the store and the image directory as they were.
C24_RejectedUploadChangesNothing ==
    /\ Rejected => StoreUntouched
    /\ (/\ request.op = "upload"
        /\ \/ request.content_type = "text/plain"
           \/ ~IsYymmdd(request.post_create_date)
           \/ AliasesIn(request.text) = {}) => Rejected
\* an image with a cafeteria in the title and the 32nd of December as creation
\* date is rejected while the store holds a diet and an image
C24_RejectedWithFilledStore ==
    /\ Rejected
    /\ request.content_type = "image/jpeg"
    /\ request.post_create_date = <<"2", "4", "1", "2", "3", "2">>
    /\ AliasesIn(request.text) # {}
    /\ diets # <<>> /\ images # {}
    /\ StoreUntouched

\* C25: the store holds at most one diet per (cafeteria_id, start_date); an
\* upload that matches a row updates post_title, post_create_date, img_url and
\* img_path of that row in place and leaves every other row and the key alone.
C25_OneDietPerCafeteriaAndWeek ==
    /\ \A i \in DOMAIN diets, j \in DOMAIN diets :
          (diets[i].cafeteria_id = diets[j].cafeteria_id
           /\ diets[i].start_date = diets[j].start_date) => i = j
    /\ (request.op = "upload" /\ reply.status = 200) =>
          \A i \in DOMAIN before.diets :
              (before.diets[i].cafeteria_id = reply.items[1].cafeteria_id
               /\ before.diets[i].start_date = reply.items[1].start_date) =>
                  /\ Len(diets) = Len(before.diets)
                  /\ diets[i].post_title = request.text
                  /\ diets[i].post_create_date = reply.items[1].post_create_date
                  /\ diets[i].img_url = reply.items[1].img_url
                  /\ diets[i].img_path = reply.items[1].img_path
                  /\ diets[i].cafeteria_id = before.diets[i].cafeteria_id
                  /\ diets[i].start_date = before.diets[i].start_date
                  /\ \A j \in DOMAIN diets : j # i => diets[j] = before.diets[j]
\* a second upload for the same cafeteria and week, under another alias and
\* with another creation date, replaced the title of the one row
C25_SecondUploadUpdatedTheRow ==
    /\ request.op = "upload" /\ reply.status = 200
    /\ Len(before.diets) = 1 /\ Len(diets) = 1
    /\ before.diets[1].post_title # diets[1].post_title
    /\ before.diets[1].post_create_date # diets[1].post_create_date
    /\ before.diets[1].cafeteria_id = diets[1].cafeteria_id
    /\ before.diets[1].start_date = diets[1].start_date

(* --------------------------- store growth properties ---------------------- *)
\* C27: over any sequence of crawl() and handle_file_process() runs no
\* regulation row is deleted and the title and the type of a row never change,
\* so the set of (title, type) keys in the store only grows.
C27_KeysOnlyGrow ==
    [][/\ Len(store') >= Len(store)
       /\ \A i \in DOMAIN store :
             /\ store'[i].title = store[i].title
             /\ store'[i].type = store[i].type
       /\ {<<store[i].title, store[i].type>> : i \in DOMAIN store}
             \subseteq {<<store'[i].title, store'[i].type>> : i \in DOMAIN store'}]_vars
\* in a later run a row was updated in place by a newer post
C27_RowUpdatedInALaterRun ==
    /\ calls >= 2
    /\ event.op = "update"
    /\ Len(prev) = Len(store)
    /\ \E i \in DOMAIN store :
          /\ prev[i].create_date < store[i].create_date
          /\ prev[i].title = store[i].title
          /\ prev[i].type = store[i].type

(* --------------------- AI skill (domain/ai/ai_crud.py) -------------------- *)
\* config.AI_THREAD_TIMEOUT_SECONDS and config.AI_RESPONSE_CACHE_TTL_SECONDS
AI_THREAD_TIMEOUT_SECONDS == 1
AI_RESPONSE_CACHE_TTL_SECONDS == 2
\* the time and the API calls the model follows
MaxTime == 3
MaxGenerations == 2

\* str.strip() on a text given token by token
RECURSIVE LStrip(_)
LStrip(s) == IF s # <<>> /\ Head(s) = " " THEN LStrip(Tail(s)) ELSE s
RECURSIVE RStrip(_)
RStrip(s) == IF s # <<>> /\ s[Len(s)] = " " THEN RStrip(SubSeq(s, 1, Len(s) - 1)) ELSE s
Strip(s) == RStrip(LStrip(s))

\* the lookup utterance
AnswerLookup == <<"dapbyeon", " ", "johoe">>
\* utterance.startswith('/ask ') and utterance.startswith('/img ')
StartsWith(s, command) == Len(s) >= 2 /\ s[1] = command /\ s[2] = " "
\* utterance.replace('/ask ', '', 1).strip()
Prompt(s) == Strip(SubSeq(s, 3, Len(s)))

\* what users send: the lookup, bare and padded; a question; an image request;
\* a command without prompt; the lookup words inside a longer text; a greeting
AiUtterances ==
    { AnswerLookup,
      <<" ">> \o AnswerLookup \o <<" ">>,
      <<"/ask", " ", "q">>,
      <<"/img", " ", "cat">>,
      <<"/ask", " ">>,
      AnswerLookup \o <<" ", "please">>,
      <<"hello">> }

\* a text of the bot
Message(m) == [by |-> "bot", about |-> <<m>>, serial |-> 0]
\* get_text_from_gpt / get_image_url_from_dalle: the result of API call n
get_text_from_gpt(prompt, n) == [by |-> "gpt", about |-> prompt, serial |-> n]
get_image_url_from_dalle(prompt, n) == [by |-> "dalle", about |-> prompt, serial |-> n]

text_response_format(bot_response) ==
    [format |-> "simpleText", text |-> bot_response, prompt |-> <<>>]
image_response_format(image_url, alt_text_prompt) ==
    [format |-> "simpleImage", text |-> image_url, prompt |-> alt_text_prompt]
\* timeover(): the placeholder with the quick reply that sends the lookup
timeover ==
    [format |-> "simpleText with quickReplies", text |-> Message("generating"),
     prompt |-> AnswerLookup]

\* one entry of user_responses_cache
Entry(type, data, prompt, timestamp) ==
    [type |-> type, data |-> data, prompt |-> prompt, timestamp |-> timestamp]

\* the cache cleanup at the start of response_openai
Cleaned(cache, now) ==
    [u \in Users |->
        IF cache[u] # NoEntry
           /\ now - cache[u].timestamp > AI_RESPONSE_CACHE_TTL_SECONDS
        THEN NoEntry ELSE cache[u]]

\* the lookup branch that leaves the entry in the cache
AfterLookupKeepsEntry(cache, user_id) == cache

\* the lookup branch: del user_responses_cache[user_id]
AfterLookup(cache, user_id) == [cache EXCEPT ![user_id] = NoEntry]

\* the response of the lookup branch for an entry
CachedResponse(cached_item) ==
    IF cached_item.type = "image"
    THEN image_response_format(cached_item.data, cached_item.prompt)
    ELSE text_response_format(cached_item.data)

\* a worker thread that stores under the first user id
WorkerOfFirstUser(user_id, type, data, prompt, ok) ==
    [user |-> "u1", type |-> type, data |-> data, prompt |-> prompt, ok |-> ok]

\* a worker thread whose API call outlasted ai_chat: what it will store
Worker(user_id, type, data, prompt, ok) ==
    [user |-> user_id, type |-> type, data |-> data, prompt |-> prompt, ok |-> ok]

\* one step of the AI skill, as the next steps see it
Step(op, user_id, kind, data) ==
    [op |-> op, user |-> user_id, kind |-> kind, data |-> data]
Keep2(q) == IF Len(q) > 2 THEN Tail(q) ELSE q

AiInit ==
    /\ RegulationIdle
    /\ DietIdle
    /\ UploadIdle
    /\ LocationIdle
    /\ RulesIdle
    /\ AiIdle
    /\ SideIdle

\* the placeholder response of a generation that outlasts the timeout
TimedOut(user_id, type, data, prompt, ok, cleaned) ==
    /\ clock + AI_THREAD_TIMEOUT_SECONDS <= MaxTime
    /\ clock' = clock + AI_THREAD_TIMEOUT_SECONDS
    /\ response' = timeover
    /\ workers' = workers \cup {Worker(user_id, type, data, prompt, ok)}
    /\ user_responses_cache' = cleaned
    /\ api_calls' = api_calls + 1
    /\ recent' = Keep2(Append(recent, Step("request", user_id, "timeover", NoText)))

\* a generation that ends within the timeout
Generated(user_id, type, data, prompt, ok, cleaned) ==
    /\ clock' = clock
    /\ workers' = workers
    /\ api_calls' = api_calls + 1
    /\ IF ok
       THEN /\ user_responses_cache' =
                   [cleaned EXCEPT ![user_id] = Entry(type, data, prompt, clock)]
            /\ response' = IF type = "image" THEN image_response_format(data, prompt)
                           ELSE text_response_format(data)
            /\ recent' = Keep2(Append(recent, Step("request", user_id, "generated", NoText)))
       ELSE /\ user_responses_cache' = cleaned
            /\ response' = text_response_format(
                               Message(IF type = "image" THEN "image error"
                                       ELSE "answer error"))
            /\ recent' = Keep2(Append(recent, Step("request", user_id, "error", NoText)))

\* POST /ai/skill: ai_chat with its response_openai thread
ai_chat ==
    \E user_id \in Users, text \in AiUtterances, slow \in BOOLEAN, ok \in BOOLEAN :
        LET stripped == Strip(text)
            cleaned == Cleaned(user_responses_cache, clock)
        IN /\ kakaorequest' = [user |-> user_id, utterance |-> text, at |-> clock,
                             api_calls |-> api_calls]
           /\ cache_before' = user_responses_cache
           /\ IF stripped = AnswerLookup
              THEN /\ ~slow /\ ok
                   /\ UNCHANGED <<clock, api_calls>>
                   /\ IF cleaned[user_id] # NoEntry
                      THEN /\ response' = CachedResponse(cleaned[user_id])
                           /\ recent' = Keep2(Append(recent,
                                            Step("request", user_id, "lookup hit", NoText)))
                           /\ \/ /\ user_responses_cache' = AfterLookup(cleaned, user_id)
                                 /\ workers' = workers
                              \/ \* a worker of this user stores its result between
                                 \* the read of the entry and the del
                                 \E w \in workers :
                                     /\ w.user = user_id /\ w.ok
                                     /\ user_responses_cache' = AfterLookup(cleaned, user_id)
                                     /\ workers' = workers \ {w}
                      ELSE /\ response' = text_response_format(Message("no answer"))
                           /\ user_responses_cache' = cleaned
                           /\ workers' = workers
                           /\ recent' = Keep2(Append(recent,
                                            Step("request", user_id, "lookup miss", NoText)))
              ELSE IF StartsWith(stripped, "/img") \/ StartsWith(stripped, "/ask")
              THEN /\ api_calls < MaxGenerations
                   /\ LET type == IF StartsWith(stripped, "/img") THEN "image" ELSE "text"
                          data == IF type = "image"
                                  THEN get_image_url_from_dalle(Prompt(stripped), api_calls + 1)
                                  ELSE get_text_from_gpt(Prompt(stripped), api_calls + 1)
                      IN IF slow
                         THEN TimedOut(user_id, type, data, Prompt(stripped), ok, cleaned)
                         ELSE Generated(user_id, type, data, Prompt(stripped), ok, cleaned)
              ELSE /\ ~slow /\ ok
                   /\ response' = text_response_format(Message("help"))
                   /\ user_responses_cache' = cleaned
                   /\ recent' = Keep2(Append(recent, Step("request", user_id, "help", NoText)))
                   /\ UNCHANGED <<clock, api_calls, workers>>
           /\ UNCHANGED <<regulationVars, dietVars, uploadVars, locationVars, rulesVars, sideVars>>

\* a worker thread ends after ai_chat has returned: its result goes into the
\* cache entry of its user, an exception is only logged
WorkerFinish ==
    /\ \E w \in workers :
          /\ workers' = workers \ {w}
          /\ user_responses_cache' =
                IF w.ok
                THEN [user_responses_cache EXCEPT
                          ![w.user] = Entry(w.type, w.data, w.prompt, clock)]
                ELSE user_responses_cache
          /\ recent' = Keep2(Append(recent, Step("worker", w.user,
                                                 IF w.ok THEN "stored" ELSE "error",
                                                 w.data)))
    /\ UNCHANGED <<clock, api_calls, kakaorequest, response, cache_before,
                   regulationVars, dietVars, uploadVars, locationVars, rulesVars, sideVars>>

\* a second passes
Tick ==
    /\ clock < MaxTime
    /\ clock' = clock + 1
    /\ recent' = Keep2(Append(recent, Step("tick", "", "", NoText)))
    /\ UNCHANGED <<user_responses_cache, workers, api_calls, kakaorequest, response,
                   cache_before, regulationVars, dietVars, uploadVars, locationVars,
                   rulesVars, sideVars>>

AiNext ==
    \/ ai_chat
    \/ WorkerFinish
    \/ Tick

AiSpec == AiInit /\ [][AiNext]_vars

(* ----------------------------- AI skill properties ------------------------ *)
\* the step taken last, and the one before it
LastStep == recent[Len(recent)]
StepBefore == recent[Len(recent) - 1]
\* the last step was a request, and it was the lookup
Answered == recent # <<>> /\ LastStep.op = "request"
LookedUp == Answered /\ Strip(kakaorequest.utterance) = AnswerLookup
\* the entry the cache held for the user of the request when it arrived, NoEntry
\* when it had none or its time had run out
Held ==
    IF cache_before[kakaorequest.user] # NoEntry
       /\ kakaorequest.at - cache_before[kakaorequest.user].timestamp
             <= AI_RESPONSE_CACHE_TTL_SECONDS
    THEN cache_before[kakaorequest.user]
    ELSE NoEntry

\* C28: a lookup by a user for whom the cache holds an entry is answered with
\* the cached data without a call of the language-model API, and the entry is
\* removed, so that a lookup by the same user right after it gets the message
\* that there is no answer to look up.
C28_LookupReturnsAndClears ==
    /\ (LookedUp /\ Held # NoEntry) =>
          /\ response.text = Held.data
          /\ response.format = IF Held.type = "image" THEN "simpleImage" ELSE "simpleText"
          /\ api_calls = kakaorequest.api_calls
          /\ user_responses_cache[kakaorequest.user] = NoEntry
    /\ (/\ LookedUp
        /\ Len(recent) = 2
        /\ StepBefore.op = "request"
        /\ StepBefore.kind = "lookup hit"
        /\ StepBefore.user = kakaorequest.user) =>
          response = text_response_format(Message("no answer"))
\* a user looked an answer up and at once looks up again
C28_SecondLookupFindsNothing ==
    /\ LookedUp
    /\ Len(recent) = 2
    /\ StepBefore = Step("request", kakaorequest.user, "lookup hit", NoText)
    /\ LastStep.kind = "lookup miss"
    /\ response.text = Message("no answer")

MaxRules == 2
Rule(title, created_at, file_url, html_url) ==
    [title |-> title, created_at |-> created_at, file_url |-> file_url,
     html_url |-> html_url]
RuleSet ==
    { Rule(<<"test", " ", "gyujeong", " ", "Alpha">>, "2023-01-01", "/alpha.hwp",
           <<"alpha", "index.xhtml">>),
      Rule(<<"test", " ", "gyujeong", " ", "Beta">>, "2023-02-01", "/beta.hwp", NoPath),
      Rule(<<"gwanje", " ", "naegyu">>, "2023-09-12", "/gwanje.hwp", NoPath),
      Rule(<<"insa", " ", "jichim">>, "2022-03-02", "/insa.pdf",
           <<"insa", "index.xhtml">>) }
RuleLists == SeqsUpTo(RuleSet, MaxRules)

\* what users ask for: a title, one word of a title, words of two titles, only
\* a word that is removed, a word of no title, and a request without utterance
RuleUtterances ==
    { <<"test", " ", "gyujeong", " ", "Beta">>,
      <<"Alpha">>,
      <<"insa", " ", "gwanje">>,
      <<"gyujeong">>,
      <<"bokmu">>,
      <<>> }

\* for word in ['gyujeong', 'naegyu', 'jichim', 'yegyu']: user_msg.replace(word, '')
RemovedWords == {"gyujeong", "naegyu", "jichim", "yegyu"}
WithoutRemovedWords(user_msg) == SelectSeq(user_msg, LAMBDA t : t \notin RemovedWords)

\* str.split(): the runs of tokens between blanks
RECURSIVE Words_split(_, _, _)
Words_split(text, word, found) ==
    IF text = <<>>
    THEN IF word = <<>> THEN found ELSE Append(found, word)
    ELSE IF Head(text) = " "
    THEN Words_split(Tail(text), <<>>, IF word = <<>> THEN found ELSE Append(found, word))
    ELSE Words_split(Tail(text), Append(word, Head(text)), found)
split(text) == Words_split(text, <<>>, <<>>)

\* the rules whose title contains the word, in the order of rules.json
MatchesOf(loaded, user_msg_word) ==
    SelectSeq(loaded, LAMBDA rule : Contains(rule.title, user_msg_word))
\* the two nested loops of get_rules over the words from k on
RECURSIVE Matches(_, _, _)
Matches(loaded, user_msg_words, k) ==
    IF k > Len(user_msg_words) THEN <<>>
    ELSE MatchesOf(loaded, user_msg_words[k]) \o Matches(loaded, user_msg_words, k + 1)

\* results[:10]
MaxCards == 10
FirstCards(found) == SubSeq(found, 1, IF Len(found) < MaxCards THEN Len(found) ELSE MaxCards)

\* rule['web_url']: base_url + 'regulation/' + title with "_" for " " + '_' +
\* created_at + '/index.xhtml'
web_url(rule) ==
    [dir |-> [i \in DOMAIN rule.title |->
                 IF rule.title[i] = " " THEN "_" ELSE rule.title[i]],
     created_at |-> rule.created_at]
\* file_url for html_url None
NoWebUrl == [dir |-> <<>>, created_at |-> ""]
Button(label, webLinkUrl, file_url) ==
    [action |-> "webLink", label |-> label, webLinkUrl |-> webLinkUrl,
     file_url |-> file_url]

\* generate_rule_cards
generate_rule_cards(found) ==
    [k \in DOMAIN found |->
        [title |-> found[k].title,
         description |-> found[k].created_at,
         buttons |-> << Button("barobogi", web_url(found[k]), ""),
                        Button("daunrodeu", NoWebUrl, found[k].file_url) >>]]

\* rules.json was loaded at server startup
RulesInit ==
    /\ RegulationIdle
    /\ DietIdle
    /\ UploadIdle
    /\ LocationIdle
    /\ AiIdle
    /\ SideIdle
    /\ rules \in RuleLists
    /\ user_msg_raw = <<>>
    /\ results = <<>>
    /\ cards = [status |-> 0, kind |-> "none", items |-> <<>>]

\* POST /get_rules
get_rules ==
    /\ \E text \in RuleUtterances :
          /\ user_msg_raw' = text
          /\ IF text = <<>>
             THEN /\ results' = <<>>
                  /\ cards' = [status |-> 400, kind |-> "missing utterance", items |-> <<>>]
             ELSE /\ results' = Matches(rules, split(WithoutRemovedWords(text)), 1)
                  /\ cards' = IF results' # <<>>
                              THEN [status |-> 200, kind |-> "carousel",
                                    items |-> generate_rule_cards(FirstCards(results'))]
                              ELSE [status |-> 200, kind |-> "not found", items |-> <<>>]
    /\ UNCHANGED <<rules, regulationVars, dietVars, uploadVars, locationVars, aiVars, sideVars>>

RulesNext == get_rules

RulesSpec == RulesInit /\ [][RulesNext]_vars

(* ----------------------------- /get_rules properties ---------------------- *)
\* the labels of the buttons of a card
Labels(card) == [b \in DOMAIN card.buttons |-> card.buttons[b].label]

\* C30 (as claimed): in the /get_rules response the card of a matched
\* regulation without html_url has exactly one button, the download, and the
\* card of a matched regulation with html_url has the two buttons view and
\* download in this order.
C30_OneButtonWithoutHtmlUrl ==
    cards.kind = "carousel" =>
        \A k \in DOMAIN cards.items :
            Labels(cards.items[k]) =
                IF results[k].html_url = NoPath
                THEN <<"daunrodeu">>
                ELSE <<"barobogi", "daunrodeu">>

(* ------------------------------ the walk of a board ------------------------ *)
\* crawl() with its loops scheduled: a started crawl() is not left standing
CrawlFairSpec == Spec /\ WF_vars(CrawlBoard) /\ WF_vars(CrawlPost)

\* C31: on a board whose listing was fetched the walk starts at the head post;
\* after every post that was handled - inserted, updated or found stored and
\* skipped - it goes on with the previous-post link of that post, and from the
\* post without such a link to the next board; the walk of a board ends.
C31_WalksTheWholeChain ==
    /\ [][(pc = "board" /\ event'.op = "listing_ok") =>
              (pc' = "post" /\ board' = board /\ link' = 1)]_vars
    /\ [][(pc = "post" /\ event'.op \in {"insert", "update", "skip"}) =>
              IF link < Len(chain[board])
              THEN pc' = "post" /\ board' = board /\ link' = link + 1
              ELSE pc' # "post" /\ board' = board + 1]_vars
    /\ [](pc = "post" => <>(pc # "post"))
\* the second post of a chain is reached although the row of the first was
\* already stored and skipped
C31_WalkedPastAStoredPost ==
    /\ pc = "post"
    /\ link = 2
    /\ event.op = "skip"
    /\ calls >= 2

(* ------------------------------ Regulation.type ---------------------------- *)
\* the values of the Enum column Regulation.type, romanised
RegulationTypes ==
    {"beop", "sihaengnyeong", "sihaenggyuchik", "jeonggwan", "jorye", "yegyu",
     "gyujeong", "naegyu"}
\* type None
NoType == "None"

\* C32 as stated: every stored regulation has a type of the Enum, or None.
C32_TypeIsOfTheEnum ==
    \A i \in DOMAIN store : store[i].type \in RegulationTypes \cup {NoType}

(* --------------------- posts with missing optional fields ------------------ *)
\* the page at the current link is well-formed and lacks the attachment link or
\* a parseable enforcement date
LacksOptionalField ==
    /\ pc = "post"
    /\ chain[board][link].title_elem
    /\ chain[board][link].nsegs >= 4
    /\ chain[board][link].date_ok
    /\ \/ chain[board][link].file_url = NoUrl
       \/ chain[board][link].enforce_date \in {NoDate, UnparseableDate}

\* C33: a fetched post without attachment link, or without a parseable
\* enforcement date, is parsed into a post with file_url (enforce_date) None
\* and handed to the upsert; the row it inserts or updates holds None there,
\* and the walk goes on with the previous-post link of the post.
C33_MissingFieldsStoredAsNone ==
    /\ [][(LacksOptionalField /\ netfails' = netfails) =>
              /\ event'.op \in {"insert", "update", "skip", "integrity_error"}
              /\ event'.post.title = chain[board][link].title
              /\ event'.post.file_url = chain[board][link].file_url
              /\ (chain[board][link].file_url = NoUrl => event'.post.file_url = NoUrl)
              /\ (chain[board][link].enforce_date \in {NoDate, UnparseableDate}
                     => event'.post.enforce_date = NoDate)
              /\ (event'.op \in {"insert", "update"} =>
                     \E i \in DOMAIN store' :
                         /\ store'[i].title = event'.post.title
                         /\ store'[i].type = event'.post.type
                         /\ store'[i].file_url = event'.post.file_url
                         /\ store'[i].enforce_date = event'.post.enforce_date)
              /\ (event'.op \in {"insert", "update", "skip"} =>
                     IF link < Len(chain[board])
                     THEN pc' = "post" /\ board' = board /\ link' = link + 1
                     ELSE pc' # "post" /\ board' = board + 1)]_vars
\* a row without attachment and without enforcement date was inserted from a
\* page whose enforcement text is no date, and the walk is at the next post
C33_StoredWithoutBoth ==
    /\ event.op = "insert"
    /\ event.post.file_url = NoUrl
    /\ event.post.enforce_date = NoDate
    /\ \E i \in DOMAIN store :
           /\ store[i].type = "jichim"
           /\ store[i].file_url = NoUrl
           /\ store[i].enforce_date = NoDate
    /\ pc = "post"
    /\ link = 2

(* ----------------------- the year of a dated title -------------------------- *)
\* the components of the only date of the title handled last, when the title
\* holds exactly one date and that date has three numeric components
ThreeComponents ==
    LET dates == extracted_dates(post_title)
    IN IF Len(dates) = 1 THEN Split(dates[1], "/") ELSE <<>>
HasThreeComponents ==
    /\ "DietUploadService" \in served
    /\ "ValueError" \notin served
    /\ Len(ThreeComponents) = 3
    /\ \A i \in 1..3 : IsInt(ThreeComponents[i])

\* the date of the title was entered in datetime_list with its first component
\* as the year
FirstComponentIsYear ==
    /\ Len(datetime_list) = 1
    /\ year(datetime_list[1]) = ToInt(ThreeComponents[1])
    /\ datetime_list[1] = datetime(ToInt(ThreeComponents[1]), ToInt(ThreeComponents[2]),
                                   ToInt(ThreeComponents[3]))

C34_YearBefore2000NotTaken ==
    /\ HasThreeComponents
    /\ ~FirstComponentIsYear
    /\ ToInt(ThreeComponents[1]) < 2000

(* ------------------- crawl() and the batch of the same run ----------------- *)
\* the rows the latest crawl() inserted or updated: new ids, and rows whose
\* create_date it replaced
WrittenByCrawl ==
    {i \in DOMAIN store :
        \/ i > Len(store0)
        \/ store[i].create_date # store0[i].create_date}
Ids(items) == {items[k].id : k \in DOMAIN items}
Elements(ids) == {ids[k] : k \in DOMAIN ids}

C38_SuccessMeansRowAndImage ==
    (request.op = "upload" /\ reply.status = 200) =>
        \E i \in DOMAIN diets :
            /\ diets[i].cafeteria_id = reply.items[1].cafeteria_id
            /\ diets[i].start_date = reply.items[1].start_date
            /\ diets[i].img_path = reply.items[1].img_path
            /\ diets[i].img_path \in images

(* ---------------------- overlapping requests of one user ------------------- *)
\* C39 as stated: the entry of a user is never replaced by the result of a
\* request that the user submitted before the request whose result it holds.
C39_LaterResultIsNotOverwritten ==
    [][\A u \in Users :
           (user_responses_cache[u] # NoEntry /\ user_responses_cache'[u] # NoEntry)
               => user_responses_cache'[u].data.serial >= user_responses_cache[u].data.serial]_vars

(* ------------------------ the names of the artifacts ----------------------- *)
\* titles of pending regulations: with a blank, an underscore or a slash
\* between the same words, with ".hwp" inside, and a plain one
ArtifactTitles ==
    { <<"a", " ", "b">>, <<"a", "_", "b">>, <<"a", "/", "b">>,
      <<"v", ".", "hwp", " ", "x">>, <<"c">> }
\* the posts such rows come from
ArtifactPosts ==
    { [type |-> ty, title |-> t, create_date |-> d, file_url |-> url,
       enforce_date |-> NoDate, next_link |-> NoLink] :
          ty \in {"gyujeong", "naegyu"}, t \in ArtifactTitles, d \in 1..2,
          url \in {UrlHwp, UrlPdf, UrlNoName} }

\* two rows of the store that await conversion; their titles differ, as the
\* unique title of the table demands
ArtifactInit ==
    /\ RegulationIdle
    /\ DietIdle
    /\ UploadIdle
    /\ LocationIdle
    /\ ChatIdle
    /\ RaceIdle
    /\ \E p1 \in ArtifactPosts, p2 \in ArtifactPosts :
          /\ p1.title # p2.title
          /\ pending = Upsert(Upsert(<<>>, p1, 0).store, p2, 0).store
    /\ artifacts = <<>>

\* the names _download_regulation_file and _convert_file_to_html_format give
\* to the artifacts of a row
ArtifactNames(regulation) ==
    LET downloaded_filename ==
            _generate_download_filename(
                regulation, _get_file_extension_from_url(regulation.file_url))
    IN [download |-> downloaded_filename,
        dirname |-> _generate_html_output_dirname(downloaded_filename)]

NameArtifacts ==
    /\ pending # <<>>
    /\ artifacts = <<>>
    /\ artifacts' = [i \in DOMAIN pending |-> ArtifactNames(pending[i])]
    /\ UNCHANGED <<pending, regulationVars, dietVars, uploadVars, locationVars,
                   chatVars, raceVars>>

ArtifactNext == NameArtifacts
ArtifactSpec == ArtifactInit /\ [][ArtifactNext]_vars

\* C35 as stated: two different pending regulations never get the same
\* download file name or the same HTML output directory, and the directory
\* name is the file name without its trailing extension.
C35_OneLocationPerDocument ==
    artifacts # <<>> =>
        /\ \A i \in DOMAIN pending, j \in DOMAIN pending :
              (\/ pending[i].title # pending[j].title
               \/ pending[i].type # pending[j].type
               \/ pending[i].create_date # pending[j].create_date) =>
                  /\ artifacts[i].download # artifacts[j].download
                  /\ artifacts[i].dirname # artifacts[j].dirname
        /\ \A i \in DOMAIN artifacts :
              artifacts[i].dirname = SubSeq(artifacts[i].download, 1, 3)

(* -------------------- two crawl() runs at the same time -------------------- *)
\* the posts of the chain both runs walk, as handle_post parses them
RacePosts == {handle_post(page, TRUE, NoLink).post : page \in GoodPages}
\* datetime.datetime.now() of the overlapping runs
RaceNow == 3
\* a run before the lookup of the post at position k
AtPost(k) == [pc |-> "lookup", at |-> k, found |-> 0, decision |-> "none"]

\* two /regulation/update requests were accepted one after the other and their
\* background tasks run in two threads, each with a session of its own, on a
\* table that is empty or holds one row
RaceInit ==
    /\ RegulationIdle
    /\ DietIdle
    /\ UploadIdle
    /\ LocationIdle
    /\ ChatIdle
    /\ ArtifactIdle
    /\ feed \in {q \in SeqsUpTo(RacePosts, MaxPosts) : q # <<>>}
    /\ table \in {<<>>} \cup {Upsert(<<>>, p, 0).store : p \in RacePosts}
    /\ runs = <<AtPost(1), AtPost(1)>>

\* the loop of crawl() goes on with post.next_link
NextPost(r) ==
    IF runs[r].at < Len(feed) THEN AtPost(runs[r].at + 1)
    ELSE [pc |-> "done", at |-> runs[r].at, found |-> 0, decision |-> "none"]

\* self.db.query(Regulation).filter_by(title=..., type=...).first() and the
\* branch crawl() takes on what it found
RaceLookup(r) ==
    /\ runs[r].pc = "lookup"
    /\ LET post == feed[runs[r].at]
           i == FindRegulation(table, post.title, post.type)
       IN runs' = [runs EXCEPT ![r] =
                      [pc |-> "write", at |-> runs[r].at, found |-> i,
                       decision |-> IF i = 0 THEN "insert"
                                    ELSE IF IsOutdated(table[i], post) THEN "update"
                                    ELSE "skip"]]
    /\ UNCHANGED <<table, feed, artifactVars, regulationVars, dietVars, uploadVars,
                   locationVars, chatVars>>

\* the commit of the branch: an insert whose title another row holds by now
\* raises IntegrityError, which the outer except of crawl() takes as the end of
\* the run
RaceWrite(r) ==
    /\ runs[r].pc = "write"
    /\ LET post == feed[runs[r].at]
       IN IF runs[r].decision = "insert"
          THEN IF TitleIsFree(table, post.title)
               THEN /\ table' = Append(table, NewRegulation(table, post))
                    /\ runs' = [runs EXCEPT ![r] = NextPost(r)]
               ELSE /\ table' = table
                    /\ runs' = [runs EXCEPT ![r].pc = "aborted"]
          ELSE IF runs[r].decision = "update"
          THEN /\ table' = [table EXCEPT ![runs[r].found] =
                               UpdatedRegulation(table[runs[r].found], post, RaceNow)]
               /\ runs' = [runs EXCEPT ![r] = NextPost(r)]
          ELSE /\ table' = table
               /\ runs' = [runs EXCEPT ![r] = NextPost(r)]
    /\ UNCHANGED <<feed, artifactVars, regulationVars, dietVars, uploadVars,
                   locationVars, chatVars>>

RaceNext == \E r \in 1..2 : RaceLookup(r) \/ RaceWrite(r)
RaceSpec == RaceInit /\ [][RaceNext]_vars

\* C36 as stated: with two overlapping crawl() runs the table never holds two
\* rows for one (title, type), and no run is ended by the insert of the other:
\* a run whose lookup found no row is not aborted by a row of that key which
\* was committed since.
C36_NoDuplicateAndNoAbort ==
    /\ \A i \in DOMAIN table, j \in DOMAIN table :
          (table[i].title = table[j].title /\ table[i].type = table[j].type) => i = j
    /\ \A r \in DOMAIN runs :
          ~ /\ runs[r].pc = "aborted"
            /\ runs[r].found = 0
            /\ FindRegulation(table, feed[runs[r].at].title, feed[runs[r].at].type) # 0

====
